---------------------------- MODULE Spec2Model ----------------------------
(***************************************************************************)
(* Session-ticket key store of src/ssl.c: the store (session_tickets), the *)
(* handshake callback (ticket_key_callback) and the three maintainers      *)
(* (ticket_internal_updater, ticket_file_updater,                          *)
(* ticket_memcached_updater).                                              *)
(*                                                                         *)
(* Time is the value of time(NULL), in seconds.  It only moves in the      *)
(* action TimePasses, which jumps to the next instants at which one of the *)
(* comparisons of the code changes its value (edges of a key's validity    *)
(* window, rotation thresholds, the end of a sleep).  sleep(n) returns no  *)
(* earlier than n seconds after the call.                                  *)
(*                                                                         *)
(* RAND_pseudo_bytes is modelled as a draw from the small pool Rand; a     *)
(* name drawn for a new key never equals a name that is in use (the        *)
(* collision of two 128-bit random names is not modelled).                 *)
(***************************************************************************)
EXTENDS Integers, Sequences, FiniteSets, TLC

(***************************************************************************)
(* Bounds of the model.                                                    *)
(***************************************************************************)
\* bytes of a key name (sizeof(ticket->name) is 16 in the code)
NameLen == 2
\* handshake threads that call ticket_key_callback concurrently
NumCallbacks == 2
\* cells of a process's heap that can hold a ticket
MaxAddr == 5
\* iterations of a maintainer's loop that are explored
MaxTicks == 3
\* processes that share the cache in memcached mode
NumProcs == 2
\* the last instant explored is T0 + Horizon
Horizon == 4600
\* bytes of a cipher key and of a MAC key (cipher->key_len is 32 for AES-256-CBC,
\* md->block_size is 64 for SHA256)
KeyLen == 1
BlockSize == 1

\* time(NULL) when the process starts; any realistic clock is larger than
\* lifetime / 4 for every unsigned lifetime
T0 == 1000
\* largest uint64_t, scaled to the model's range of times
UINT64_MAX == 9999
\* transport errors of the connection to memcached in one behaviour
MaxFaults == 1
\* TLS contexts given to ssl_setup_session_resumption
MaxContexts == 2
\* tickets in a sequence given to serialize_tickets on its own
MaxLen == 2

(***************************************************************************)
(* Program constants.                                                      *)
(***************************************************************************)
\* sleep(120 - (rand() >> 16) % 7)
SleepBase == 120
SleepJitterMod == 7
\* sleep(10) of ticket_file_updater
FilePollSecs == 10
\* sleep(60) of ticket_memcached_updater
McPollSecs == 60
\* not_before = has_valid_ticket ? now + 60 : now
McOffset == 60
\* conf.ticket.vars.generating.lifetime = 3600
DefaultLifetime == 3600

\* the values of (rand() >> 16) % 7 that are explored: the two extremes
SleepJitters == {0, SleepJitterMod - 1}
Modes == {"internal", "file", "memcached"}
Lifetimes == {2, 200, DefaultLifetime}
Procs == 1..NumProcs
Callbacks == 1..NumCallbacks
\* addresses of heap cells: the maintainer's allocations come from 1..MaxAddr and
\* handshake thread c's from the cell MaxAddr + c (malloc may serve each thread
\* from an arena of its own; the address of a block has no meaning to the code)
Addrs == 1..(MaxAddr + NumCallbacks)
NULL == 0

VARIABLES
    mode,        \* conf.ticket.update_thread
    lifetime,    \* conf.ticket.vars.generating.lifetime
    clock,       \* time(NULL)
    heap,        \* heap[p][a]: the ticket allocated at address a of process p
    tickets,     \* tickets[p]: session_tickets.tickets of process p
    rwlock,      \* rwlock[p]: session_tickets.rwlock of process p
    cb,          \* cb[c]: one call of ticket_key_callback on process 1
    upd,         \* upd[p]: locals of the maintainer thread of process p
    file,        \* the file conf.ticket.vars.file.filename: what stat and read return
    mc,          \* the item "h2o:session-tickets" of the memcached server
    conf,        \* the static conf, lines 48-66 (its ticket strategy and lifetime as
                 \* the maintainers use them are mode and lifetime)
    srv,         \* the startup of the server: init_openssl, the configurator, the setup
    workers,     \* number of handshake threads that call ticket_key_callback
    codec        \* a run of serialize_tickets, parse_tickets and qsort on their own

vars == <<mode, lifetime, clock, heap, tickets, rwlock, cb, upd, file, mc, conf, srv, workers, codec>>

(***************************************************************************)
(* Ticket values.                                                          *)
(***************************************************************************)
Name(hi, lo) == [i \in 1..NameLen |-> IF i = 1 THEN hi ELSE IF i = NameLen THEN lo ELSE 0]

ZeroName == Name(0, 0)

\* n bytes, all equal to b
Bytes(b, n) == [i \in 1..n |-> b]

\* what RAND_pseudo_bytes fills a maintainer's new ticket with: the first element
\* of this pool whose name is not in use (the pool is not in the order of the names)
Rand ==
    [i \in 1..(MaxTicks + 1) |->
        [name |-> Name(i % 2, i \div 2), cipher_key |-> Bytes(6 + i, KeyLen),
         hmac_key |-> Bytes(2 + i, BlockSize)]]

\* a freed cell: free_ticket has overwritten it with zeros
NoTicket ==
    [name |-> ZeroName, cipher |-> "", cipher_key |-> <<>>, md |-> "", hmac_key |-> <<>>,
     not_before |-> 0, not_after |-> 0, alloc |-> FALSE]

new_ticket(cipher, md, not_before, not_after, r) ==
    [name |-> r.name, cipher |-> cipher, cipher_key |-> r.cipher_key, md |-> md,
     hmac_key |-> r.hmac_key, not_before |-> not_before, not_after |-> not_after,
     alloc |-> TRUE]

\* malloc in a maintainer thread: the lowest free cell of the heap h (NULL when
\* the model's heap is full)
malloc(h) ==
    IF \E a \in 1..MaxAddr : ~h[a].alloc
    THEN CHOOSE a \in 1..MaxAddr : ~h[a].alloc /\ \A b \in 1..MaxAddr : ~h[b].alloc => a <= b
    ELSE NULL

RECURSIVE memcmp(_, _, _)
memcmp(x, y, n) ==
    IF n = 0 THEN 0
    ELSE LET d == memcmp(SubSeq(x, 1, n - 1), SubSeq(y, 1, n - 1), n - 1)
         IN  IF d # 0 THEN d
             ELSE IF x[n] < y[n] THEN -1 ELSE IF x[n] > y[n] THEN 1 ELSE 0

ticket_sort_compare(x, y) ==
    IF x.not_before # y.not_before
    THEN (IF x.not_before > y.not_before THEN -1 ELSE 1)
    ELSE memcmp(x.name, y.name, NameLen)

\* a variant of qsort that leaves the pointers in the order it got them
qsort_leaves_order(h, v) == {v}

\* qsort(entries, size, ..., ticket_sort_compare): every arrangement of the
\* pointers v that the comparison accepts (the order of elements that compare
\* equal is not specified)
qsort(h, v) ==
    { [i \in 1..Len(v) |-> v[f[i]]] : f \in
        { g \in Permutations(1..Len(v)) :
            \A i \in 1..(Len(v) - 1) : ticket_sort_compare(h[v[g[i]]], h[v[g[i + 1]]]) <= 0 } }

\* index of the ticket that find_ticket_for_encryption returns, 0 for NULL
RECURSIVE find_ticket_for_encryption_from(_, _, _, _)
find_ticket_for_encryption_from(h, v, now, i) ==
    IF i > Len(v) THEN 0
    ELSE IF h[v[i]].not_before <= now
         THEN (IF now <= h[v[i]].not_after THEN i ELSE 0)
         ELSE find_ticket_for_encryption_from(h, v, now, i + 1)

\* a variant of the search that takes the first ticket with not_before <= now and
\* does not look at its not_after
first_ticket_begun(h, v, now) ==
    IF \E i \in 1..Len(v) : h[v[i]].not_before <= now
    THEN CHOOSE i \in 1..Len(v) :
            /\ h[v[i]].not_before <= now
            /\ \A j \in 1..(i - 1) : h[v[j]].not_before > now
    ELSE 0

find_ticket_for_encryption(h, v, now) == find_ticket_for_encryption_from(h, v, now, 1)

\* index of the first ticket named key_name, 0 when the loop ends without one
RECURSIVE find_ticket_by_name(_, _, _, _)
find_ticket_by_name(h, v, key_name, i) ==
    IF i > Len(v) THEN 0
    ELSE IF memcmp(h[v[i]].name, key_name, NameLen) = 0 THEN i
         ELSE find_ticket_by_name(h, v, key_name, i + 1)

\* what RAND_pseudo_bytes fills the ephemeral ticket of handshake thread c with
EphemeralRand(c) ==
    [name |-> Name(2, c), cipher_key |-> Bytes(10 + c, KeyLen), hmac_key |-> Bytes(20 + c, BlockSize)]

(***************************************************************************)
(* The serialized form of a ticket, lines 279-443.  A document is what the *)
(* YAML parser hands to parse_tickets: a root node that is a sequence of   *)
(* nodes, a mapping node being a function from attribute names to nodes.   *)
(* Scalars that the code decodes are sequences of characters.              *)
(***************************************************************************)
HexDigits == <<"0", "1", "2", "3", "4", "5", "6", "7", "8", "9", "a", "b", "c", "d", "e", "f">>

DecDigits == <<"0", "1", "2", "3", "4", "5", "6", "7", "8", "9">>

\* h2o_hex_encode: two lowercase digits for each byte
RECURSIVE h2o_hex_encode(_)
h2o_hex_encode(bytes) ==
    IF bytes = <<>> THEN <<>>
    ELSE <<HexDigits[(bytes[1] \div 16) + 1], HexDigits[(bytes[1] % 16) + 1]>>
             \o h2o_hex_encode(Tail(bytes))

\* value of a hexadecimal digit, -1 for any other character
HexValue(ch) ==
    IF \E i \in 1..16 : HexDigits[i] = ch
    THEN (CHOOSE i \in 1..16 : HexDigits[i] = ch) - 1
    ELSE IF ch \in {"A", "B", "C", "D", "E", "F"}
         THEN CASE ch = "A" -> 10 [] ch = "B" -> 11 [] ch = "C" -> 12
                [] ch = "D" -> 13 [] ch = "E" -> 14 [] ch = "F" -> 15
         ELSE -1

\* h2o_hex_decode of an even number of characters: the bytes, or failure
RECURSIVE h2o_hex_decode(_)
h2o_hex_decode(chars) ==
    IF chars = <<>> THEN [ok |-> TRUE, bytes |-> <<>>]
    ELSE LET hi == HexValue(chars[1])
             lo == HexValue(chars[2])
             rest == h2o_hex_decode(SubSeq(chars, 3, Len(chars)))
         IN  IF hi < 0 \/ lo < 0 \/ ~rest.ok
             THEN [ok |-> FALSE, bytes |-> <<>>]
             ELSE [ok |-> TRUE, bytes |-> <<hi * 16 + lo>> \o rest.bytes]

\* printf("%" PRIu64): the decimal digits of n
RECURSIVE PRIu64(_)
PRIu64(n) ==
    IF n < 10 THEN <<DecDigits[n + 1]>>
    ELSE PRIu64(n \div 10) \o <<DecDigits[(n % 10) + 1]>>

DecValue(ch) ==
    IF \E i \in 1..10 : DecDigits[i] = ch
    THEN (CHOOSE i \in 1..10 : DecDigits[i] = ch) - 1
    ELSE -1

\* value of the leading decimal digits of chars, saturating at UINT64_MAX
RECURSIVE ScanDigits(_, _)
ScanDigits(chars, acc) ==
    IF chars = <<>> \/ DecValue(chars[1]) < 0 THEN acc
    ELSE LET v == acc * 10 + DecValue(chars[1])
         IN  ScanDigits(Tail(chars), IF v > UINT64_MAX THEN UINT64_MAX ELSE v)

\* sscanf(s, "%" SCNu64, &v) of a scalar without sign or leading blanks: 1 and
\* the value when s starts with a digit, else 0
SCNu64(chars) ==
    IF chars # <<>> /\ DecValue(chars[1]) >= 0
    THEN [n |-> 1, value |-> ScanDigits(chars, 0)]
    ELSE [n |-> 0, value |-> 0]

KnownCiphers == {"AES-256-CBC"}
KnownDigests == {"SHA256"}

Scalar(s) == [type |-> "scalar", scalar |-> s]

\* a variant of serialize_ticket_entry that writes the MAC key before the cipher key
serialize_mac_key_first(ticket) ==
    [type |-> "mapping",
     attrs |-> [name |-> Scalar(h2o_hex_encode(ticket.name)),
                cipher |-> Scalar(ticket.cipher),
                hash |-> Scalar(ticket.md),
                key |-> Scalar(h2o_hex_encode(ticket.hmac_key) \o h2o_hex_encode(ticket.cipher_key)),
                not_before |-> Scalar(PRIu64(ticket.not_before)),
                not_after |-> Scalar(PRIu64(ticket.not_after))]]

\* lines 279-295: the mapping that the text written by serialize_ticket_entry
\* parses to
serialize_ticket_entry(ticket) ==
    [type |-> "mapping",
     attrs |-> [name |-> Scalar(h2o_hex_encode(ticket.name)),
                cipher |-> Scalar(ticket.cipher),
                hash |-> Scalar(ticket.md),
                key |-> Scalar(h2o_hex_encode(ticket.cipher_key) \o h2o_hex_encode(ticket.hmac_key)),
                not_before |-> Scalar(PRIu64(ticket.not_before)),
                not_after |-> Scalar(PRIu64(ticket.not_after))]]

\* lines 424-443: serialize_tickets of the ticket values ts
serialize_tickets(ts) ==
    [type |-> "sequence", elements |-> [i \in 1..Len(ts) |-> serialize_ticket_entry(ts[i])]]

\* the FETCH macro, lines 313-324: the attribute n is there and is a scalar
FETCH(element, n) == n \in DOMAIN element.attrs /\ element.attrs[n].type = "scalar"

NoEntry == [ok |-> FALSE, ticket |-> NoTicket]

\* a variant of the condition of line 373 that accepts every window
accept_any_window(not_before, not_after) == TRUE

\* line 373: the condition on the two ends of the validity window
not_before_le_not_after(not_before, not_after) == not_before <= not_after

\* lines 297-385
parse_ticket_entry(element) ==
    IF element.type # "mapping" THEN NoEntry
    ELSE IF ~FETCH(element, "name") THEN NoEntry
    ELSE IF Len(element.attrs["name"].scalar) # NameLen * 2 THEN NoEntry
    ELSE IF ~h2o_hex_decode(element.attrs["name"].scalar).ok THEN NoEntry
    ELSE IF ~FETCH(element, "cipher") THEN NoEntry
    ELSE IF element.attrs["cipher"].scalar \notin KnownCiphers THEN NoEntry
    ELSE IF ~FETCH(element, "hash") THEN NoEntry
    ELSE IF element.attrs["hash"].scalar \notin KnownDigests THEN NoEntry
    ELSE IF ~FETCH(element, "key") THEN NoEntry
    ELSE IF Len(element.attrs["key"].scalar) # (KeyLen + BlockSize) * 2 THEN NoEntry
    ELSE IF ~h2o_hex_decode(element.attrs["key"].scalar).ok THEN NoEntry
    ELSE IF ~FETCH(element, "not_before") THEN NoEntry
    ELSE IF SCNu64(element.attrs["not_before"].scalar).n # 1 THEN NoEntry
    ELSE IF ~FETCH(element, "not_after") THEN NoEntry
    ELSE IF SCNu64(element.attrs["not_after"].scalar).n # 1 THEN NoEntry
    ELSE LET name == h2o_hex_decode(element.attrs["name"].scalar).bytes
             key == h2o_hex_decode(element.attrs["key"].scalar).bytes
             not_before == SCNu64(element.attrs["not_before"].scalar).value
             not_after == SCNu64(element.attrs["not_after"].scalar).value
         IN  IF ~not_before_le_not_after(not_before, not_after) THEN NoEntry
             ELSE [ok |-> TRUE,
                   ticket |-> [name |-> name,
                               cipher |-> element.attrs["cipher"].scalar,
                               cipher_key |-> SubSeq(key, 1, KeyLen),
                               md |-> element.attrs["hash"].scalar,
                               hmac_key |-> SubSeq(key, KeyLen + 1, KeyLen + BlockSize),
                               not_before |-> not_before,
                               not_after |-> not_after,
                               alloc |-> TRUE]]

\* a variant of the parse that drops the elements parse_ticket_entry rejects and
\* keeps the others
RECURSIVE parse_elements_skip_rejected(_, _)
parse_elements_skip_rejected(elements, i) ==
    IF i > Len(elements) THEN [ok |-> TRUE, tickets |-> <<>>]
    ELSE LET e == parse_ticket_entry(elements[i])
             rest == parse_elements_skip_rejected(elements, i + 1)
         IN  IF ~e.ok THEN rest
             ELSE [ok |-> TRUE, tickets |-> <<e.ticket>> \o rest.tickets]

\* lines 387-422: the ticket values of the document, or failure at the first
\* element that parse_ticket_entry rejects (the tickets parsed so far are freed)
RECURSIVE parse_elements(_, _)
parse_elements(elements, i) ==
    IF i > Len(elements) THEN [ok |-> TRUE, tickets |-> <<>>]
    ELSE LET e == parse_ticket_entry(elements[i])
         IN  IF ~e.ok THEN [ok |-> FALSE, tickets |-> <<>>]
             ELSE LET rest == parse_elements(elements, i + 1)
                  IN  IF ~rest.ok THEN rest
                      ELSE [ok |-> TRUE, tickets |-> <<e.ticket>> \o rest.tickets]

parse_tickets(doc) ==
    IF doc.type # "sequence" THEN [ok |-> FALSE, tickets |-> <<>>]
    ELSE parse_elements(doc.elements, 1)

\* the tickets that parse_tickets holds in its vector when it reaches Error
\* (line 418): those made by new_ticket before the element that was rejected
RECURSIVE parsed_before_error(_, _)
parsed_before_error(elements, i) ==
    IF i > Len(elements) THEN <<>>
    ELSE LET e == parse_ticket_entry(elements[i])
         IN  IF ~e.ok THEN <<>> ELSE <<e.ticket>> \o parsed_before_error(elements, i + 1)

\* the heap h after the ticket values ts have been allocated in turn, and their
\* addresses (new_ticket for each element, h2o_vector_reserve for the vector)
RECURSIVE alloc_tickets(_, _)
alloc_tickets(h, ts) ==
    IF ts = <<>> THEN [heap |-> h, entries |-> <<>>, ok |-> TRUE]
    ELSE LET a == malloc(h)
         IN  IF a = NULL THEN [heap |-> h, entries |-> <<>>, ok |-> FALSE]
             ELSE LET rest == alloc_tickets([h EXCEPT ![a] = ts[1]], Tail(ts))
                  IN  [heap |-> rest.heap, entries |-> <<a>> \o rest.entries, ok |-> rest.ok]

\* a variant of free_ticket that leaves the ticket as it is
forget_ticket(h, a) == h

\* h2o_mem_set_secure(ticket, 0, size), line 147: every byte of the ticket, its two
\* keys included, becomes zero; the cell stays allocated
h2o_mem_set_secure(h, a) == [h EXCEPT ![a] = [NoTicket EXCEPT !.alloc = h[a].alloc]]

\* free(ticket), line 148: the cell goes back to the allocator with the bytes it holds
free(h, a) == [h EXCEPT ![a].alloc = FALSE]

\* a variant of free_ticket that releases the ticket without wiping it
release_unwiped(h, a) == free(h, a)

\* free_ticket, lines 145-149: wipe the ticket, then release it
free_ticket(h, a) == free(h2o_mem_set_secure(h, a), a)

\* free_tickets, lines 160-167
RECURSIVE free_tickets(_, _)
free_tickets(h, v) ==
    IF v = <<>> THEN h ELSE free_tickets(free_ticket(h, v[1]), Tail(v))

\* lines 418-421: the Error exit of parse_tickets on the heap h: the tickets made
\* so far are freed
parse_tickets_error(h, doc) ==
    LET made == alloc_tickets(h, IF doc.type # "sequence" THEN <<>>
                                 ELSE parsed_before_error(doc.elements, 1))
    IN  free_tickets(made.heap, made.entries)

\* no run of the codec on its own
NoCodec ==
    [pc |-> "none", tickets |-> <<>>, doc |-> serialize_tickets(<<>>),
     parsed |-> [ok |-> TRUE, tickets |-> <<>>], sorted |-> <<>>,
     ypc |-> "none", given |-> serialize_tickets(<<>>),
     reparsed |-> [ok |-> TRUE, tickets |-> <<>>], out |-> serialize_tickets(<<>>)]

\* names that a new random name does not collide with
NamesInUse ==
    UNION {{heap[p][a].name : a \in {b \in Addrs : heap[p][b].alloc}} : p \in Procs}

FreshRand ==
    LET unused == {i \in 1..Len(Rand) : Rand[i].name \notin NamesInUse}
    IN  IF unused = {} THEN {} ELSE {Rand[CHOOSE i \in unused : \A j \in unused : i <= j]}

(***************************************************************************)
(* Initial state: nothing is allocated, the store is empty (the static     *)
(* initializer of session_tickets), no thread has started.                 *)
(***************************************************************************)
IdleCallback ==
    [pc |-> "idle", enc |-> FALSE, key_name |-> ZeroName, ticket |-> NULL, temp_ticket |-> NULL,
     i |-> 0, ret |-> -1, ctx |-> <<>>, hctx |-> <<>>, now |-> 0]

InitUpdater ==
    [pc |-> "top", now |-> 0, newest_not_before |-> 0, oldest_not_after |-> UINT64_MAX,
     ticket |-> NULL, expiring_ticket |-> NULL, wake |-> 0, ticks |-> 0,
     last_mtime |-> 1, tickets |-> <<>>,
     resp |-> [status |-> "", cas_unique |-> 0],
     stat_failed |-> FALSE, logged |-> FALSE, retries |-> 0]

\* mc.data holds the ticket values whose serialization is the value of the item:
\* a write stores serialize_tickets of them, a GET returns it
\* (faults counts the requests to the server that ended in a transport error)
\* (by is the rotator whose write the server stored last, 0 when there is none)
NoItem == [present |-> FALSE, data |-> <<>>, cas |-> 0, expire |-> 0, faults |-> 0, by |-> 0]

\* a ticket value as an operator would write it to the file
Tk(name, b, not_before, not_after) ==
    [name |-> name, cipher |-> "AES-256-CBC", cipher_key |-> Bytes(b, KeyLen), md |-> "SHA256",
     hmac_key |-> Bytes(b + 1, BlockSize), not_before |-> not_before, not_after |-> not_after,
     alloc |-> TRUE]

\* the documents an operator puts in the file:
\*  1. two keys valid at T0 with equal not_before, the greater name first
\*  2. a key that expired before T0, then a key that is not valid before T0 + 10
\*  3. the same name twice, with equal not_before
\*  4. a key, then an entry whose not_after is less than its not_before
FileDocs ==
    << serialize_tickets(<<Tk(Name(1, 0), 30, T0 - 100, T0 + 19),
                           Tk(Name(0, 1), 32, T0 - 100, T0 + 19)>>),
       serialize_tickets(<<Tk(Name(0, 1), 34, T0 - 100, T0 - 1),
                           Tk(Name(1, 0), 36, T0 + 10, T0 + 19)>>),
       serialize_tickets(<<Tk(Name(0, 1), 38, T0 - 100, T0 + 19),
                           Tk(Name(0, 1), 40, T0 - 100, T0 + 19)>>),
       serialize_tickets(<<Tk(Name(0, 1), 42, T0 - 100, T0 + 19),
                           Tk(Name(1, 0), 44, T0 + 10, T0 + 9)>>) >>

(***************************************************************************)
(* Configuration and startup: the static conf (lines 48-66), init_openssl  *)
(* (855-871), ssl_session_resumption_on_config (625-805) and               *)
(* ssl_setup_session_resumption (807-835).  A null pointer is "NULL".      *)
(***************************************************************************)
\* the zero-initialized static conf
StaticConf ==
    [cache_setup |-> "NULL", cache_lifetime |-> 0,
     update_thread |-> "NULL", cipher |-> "NULL", md |-> "NULL", ticket_lifetime |-> 0,
     filename |-> "NULL",
     host |-> "NULL", port |-> 0, num_threads |-> 0, prefix |-> "NULL"]

\* lines 70-74
cache_init_defaults(c) == [c EXCEPT !.cache_setup = "NULL", !.cache_lifetime = DefaultLifetime]

\* lines 602-610
ticket_init_defaults(c) ==
    [c EXCEPT !.update_thread = "ticket_internal_updater", !.cipher = "AES-256-CBC",
              !.md = "SHA256", !.ticket_lifetime = DefaultLifetime]

\* a variant that looks at the cache strategy only
cache_uses_memcached(c) == c.cache_setup = "setup_cache_memcached"

\* lines 614-623
conf_uses_memcached(c) ==
    \/ c.cache_setup = "setup_cache_memcached"
    \/ c.update_thread = "ticket_memcached_updater"

\* yoml_get(node, name) = NULL
Absent == [type |-> "absent"]

\* a node that is not a scalar
Sequence == [type |-> "sequence"]

\* tolower of the scalars that the configuration is given
ToLower(s) ==
    CASE s = "OFF" -> "off" [] s = "Cache" -> "cache" [] s = "Memcached" -> "memcached"
      [] OTHER -> s

strcasecmp(a, b) == IF ToLower(a) = ToLower(b) THEN 0 ELSE 1

\* lines 634-655: the local modes, or failure
config_modes(node) ==
    LET t == node.mode
    IN  IF t.type # "scalar" THEN [ok |-> FALSE, modes |-> {}]
        ELSE IF strcasecmp(t.scalar, "off") = 0 THEN [ok |-> TRUE, modes |-> {}]
        ELSE IF strcasecmp(t.scalar, "all") = 0
             THEN [ok |-> TRUE, modes |-> {"MODE_CACHE", "MODE_TICKET"}]
        ELSE IF strcasecmp(t.scalar, "cache") = 0 THEN [ok |-> TRUE, modes |-> {"MODE_CACHE"}]
        ELSE IF strcasecmp(t.scalar, "ticket") = 0 THEN [ok |-> TRUE, modes |-> {"MODE_TICKET"}]
        ELSE [ok |-> FALSE, modes |-> {}]

\* the characters of the scalars that the configuration gives where a number is
\* expected
Chars(s) ==
    CASE s = "0" -> <<"0">> [] s = "200" -> <<"2", "0", "0">> [] s = "11" -> <<"1", "1">>
      [] s = "1" -> <<"1">> [] OTHER -> <<"x">>

\* sscanf(t->data.scalar, "%u", &field) == 1 && field != 0, for a scalar t: the
\* field is assigned before it is compared with 0
scan_positive(c, t, field) ==
    LET scan == SCNu64(Chars(t.scalar))
    IN  IF scan.n # 1 THEN [conf |-> c, ok |-> FALSE]
        ELSE [conf |-> [c EXCEPT ![field] = scan.value], ok |-> scan.value # 0]

\* lines 657-685
config_cache(c, node, modes) ==
    IF "MODE_CACHE" \notin modes
    THEN [conf |-> [c EXCEPT !.cache_setup = "setup_cache_disable"], ok |-> TRUE]
    ELSE LET c1 == cache_init_defaults(c)
             t == node.cache_store
             c2 == IF t.type = "scalar" /\ strcasecmp(t.scalar, "memcached") = 0
                   THEN [c1 EXCEPT !.cache_setup = "setup_cache_memcached"]
                   ELSE c1
             u == node.cache_lifetime
         IN  IF t.type # "absent"
                  /\ ~(t.type = "scalar" /\ (strcasecmp(t.scalar, "internal") = 0
                                             \/ strcasecmp(t.scalar, "memcached") = 0))
             THEN [conf |-> c1, ok |-> FALSE]
             ELSE IF u.type = "absent" THEN [conf |-> c2, ok |-> TRUE]
             ELSE IF u.type # "scalar" THEN [conf |-> c2, ok |-> FALSE]
             ELSE scan_positive(c2, u, "cache_lifetime")

\* the ticket subsystem is not enabled, lines 687 and 748: conf.ticket is left as
\* it is
ticket_disabled(c) == c

\* EVP_get_cipherbyname and EVP_get_digestbyname
EVP_get_byname(known, name) == IF name \in known THEN name ELSE "NULL"

\* lines 708-731: ticket-cipher, ticket-hash, ticket-lifetime
config_generating(c, node) ==
    LET t == node.ticket_cipher
        c1 == IF t.type = "scalar"
              THEN [c EXCEPT !.cipher = EVP_get_byname(KnownCiphers, t.scalar)] ELSE c
        h == node.ticket_hash
        c2 == IF h.type = "scalar"
              THEN [c1 EXCEPT !.md = EVP_get_byname(KnownDigests, h.scalar)] ELSE c1
        u == node.ticket_lifetime
    IN  IF t.type # "absent" /\ (t.type # "scalar" \/ c1.cipher = "NULL")
        THEN [conf |-> c1, ok |-> FALSE]
        ELSE IF h.type # "absent" /\ (h.type # "scalar" \/ c2.md = "NULL")
        THEN [conf |-> c2, ok |-> FALSE]
        ELSE IF u.type = "absent" THEN [conf |-> c2, ok |-> TRUE]
        ELSE IF u.type # "scalar" THEN [conf |-> c2, ok |-> FALSE]
        ELSE scan_positive(c2, u, "ticket_lifetime")

\* lines 687-748
config_ticket(c, node, modes) ==
    IF "MODE_TICKET" \notin modes THEN [conf |-> ticket_disabled(c), ok |-> TRUE]
    ELSE LET c1 == ticket_init_defaults(c)
             t == node.ticket_store
             store == IF t.type # "scalar" THEN "" ELSE ToLower(t.scalar)
             c2 == IF store = "file" THEN [c1 EXCEPT !.update_thread = "ticket_file_updater"]
                   ELSE IF store = "memcached"
                        THEN [c1 EXCEPT !.update_thread = "ticket_memcached_updater"]
                        ELSE c1
             f == node.ticket_file
         IN  IF t.type # "absent" /\ store \notin {"internal", "file", "memcached"}
             THEN [conf |-> c1, ok |-> FALSE]
             ELSE IF c2.update_thread # "ticket_file_updater" THEN config_generating(c2, node)
             ELSE IF f.type # "scalar" THEN [conf |-> c2, ok |-> FALSE]
             ELSE [conf |-> [c2 EXCEPT !.filename = f.scalar], ok |-> TRUE]

\* lines 756-792: the elements of the mapping `memcached`, from element i on
RECURSIVE config_memcached_elements(_, _, _)
config_memcached_elements(c, elements, i) ==
    IF i > Len(elements) THEN [conf |-> c, ok |-> TRUE]
    ELSE LET key == elements[i].key
             value == elements[i].value
         IN  IF key = "host"
             THEN (IF value.type # "scalar" THEN [conf |-> c, ok |-> FALSE]
                   ELSE config_memcached_elements([c EXCEPT !.host = value.scalar],
                                                  elements, i + 1))
             ELSE IF key = "port"
             THEN (IF value.type # "scalar" \/ SCNu64(Chars(value.scalar)).n # 1
                   THEN [conf |-> c, ok |-> FALSE]
                   ELSE config_memcached_elements(
                            [c EXCEPT !.port = SCNu64(Chars(value.scalar)).value], elements, i + 1))
             ELSE [conf |-> c, ok |-> FALSE]

\* lines 750-797
config_memcached(c, node) ==
    LET t == node.memcached
    IN  IF t.type = "absent" THEN [conf |-> c, ok |-> TRUE]
        ELSE LET c1 == [c EXCEPT !.host = "NULL", !.port = 11211, !.num_threads = 1,
                                 !.prefix = ":h2o:ssl-resumption:"]
                 r == config_memcached_elements(c1, t.elements, 1)
             IN  IF ~r.ok THEN r
                 ELSE [conf |-> r.conf, ok |-> r.conf.host # "NULL"]

\* ssl_session_resumption_on_config, lines 625-805: conf after the call, and the
\* value returned
on_config(c, node) ==
    LET m == config_modes(node)
        r1 == config_cache(c, node, m.modes)
        r2 == config_ticket(r1.conf, node, m.modes)
        r3 == config_memcached(r2.conf, node)
    IN  IF ~m.ok THEN [conf |-> c, ret |-> -1]
        ELSE IF ~r1.ok THEN [conf |-> r1.conf, ret |-> -1]
        ELSE IF ~r2.ok THEN [conf |-> r2.conf, ret |-> -1]
        ELSE IF ~r3.ok THEN [conf |-> r3.conf, ret |-> -1]
        ELSE IF conf_uses_memcached(r3.conf) /\ r3.conf.host = "NULL"
             THEN [conf |-> r3.conf, ret |-> -1]
             ELSE [conf |-> r3.conf, ret |-> 0]

\* the values of the node given to the configurator
ModeNodes ==
    {Absent, Sequence} \cup {Scalar(s) : s \in {"off", "OFF", "all", "cache", "Cache", "ticket", "on"}}
CacheStoreNodes == {Absent} \cup {Scalar(s) : s \in {"internal", "memcached", "file"}}
TicketStoreNodes ==
    {Absent} \cup {Scalar(s) : s \in {"internal", "file", "memcached", "Memcached", "redis"}}
LifetimeNodes == {Absent, Scalar("0"), Scalar("200"), Scalar("soon")}
CipherNodes == {Absent, Scalar("AES-256-CBC"), Scalar("rot13")}
HashNodes == {Absent, Scalar("md0")}
FileNodes == {Absent, Scalar("tickets.yaml")}
MemcachedNodes ==
    {Absent} \cup
    {[type |-> "mapping", elements |-> e] : e \in
        { <<>>,
          << [key |-> "host", value |-> Scalar("cache1")] >>,
          << [key |-> "port", value |-> Scalar("11")] >>,
          << [key |-> "host", value |-> Scalar("cache1")],
             [key |-> "port", value |-> Scalar("11")] >>,
          << [key |-> "host", value |-> Scalar("cache1")],
             [key |-> "weight", value |-> Scalar("1")] >> }}

ConfigNodes ==
    [mode : ModeNodes, cache_store : CacheStoreNodes, cache_lifetime : LifetimeNodes,
     ticket_store : TicketStoreNodes, ticket_cipher : CipherNodes, ticket_hash : HashNodes,
     ticket_lifetime : LifetimeNodes, ticket_file : FileNodes, memcached : MemcachedNodes]

Contexts == 1..MaxContexts

\* the server before init_openssl: nothing is set up
NotStarted ==
    [pc |-> "start", ret |-> 0, node_mode |-> Absent, num_contexts |-> 0, memc_ctx |-> "NULL",
     thread |-> "NULL", ticket_key_cb |-> {}, no_ticket |-> {}, cache_off |-> {},
     async_resumption |-> {}]

\* init_openssl, lines 855-871
InitOpenssl ==
    /\ srv.pc = "start"
    /\ conf' = ticket_init_defaults(cache_init_defaults(conf))
    /\ srv' = [srv EXCEPT !.pc = "initialized"]
    /\ UNCHANGED <<mode, lifetime, clock, heap, tickets, rwlock, cb, upd, file, mc, workers, codec>>

\* the configurator calls ssl_session_resumption_on_config for the directive
OnConfig(node) ==
    /\ srv.pc = "initialized"
    /\ LET r == on_config(conf, node)
       IN  /\ conf' = r.conf
           /\ srv' = [srv EXCEPT !.pc = IF r.ret = 0 THEN "configured" ELSE "failed",
                                 !.ret = r.ret, !.node_mode = node.mode]
    /\ UNCHANGED <<mode, lifetime, clock, heap, tickets, rwlock, cb, upd, file, mc, workers, codec>>

\* the server goes on to the setup when the configuration had no error (a
\* configuration error aborts the startup)
StartupContinues == srv.pc \in {"initialized", "configured"}

\* spawn_memcached_clients, lines 76-81: the host that the client context is
\* created with; with a null host the assertion ends the process, or, in a build
\* with NDEBUG, the context is created with the null host
spawn_memcached_clients(c) ==
    IF c.host # "NULL" THEN {c.host} ELSE {"assertion failed", "context of null host"}

\* ssl_setup_session_resumption(contexts, num_contexts), lines 807-835
SetupSessionResumption(num_contexts) ==
    /\ StartupContinues
    /\ \E ctx \in (IF conf_uses_memcached(conf) THEN spawn_memcached_clients(conf) ELSE {"NULL"}) :
          LET all == 1..num_contexts
              tickets_on == num_contexts # 0 /\ conf.update_thread # "NULL"
          IN  srv' = [srv EXCEPT
                        !.pc = IF ctx = "assertion failed" THEN "aborted" ELSE "running",
                        !.num_contexts = num_contexts,
                        !.memc_ctx = ctx,
                        !.cache_off = IF ctx # "assertion failed"
                                         /\ conf.cache_setup = "setup_cache_disable"
                                      THEN all ELSE {},
                        !.async_resumption = IF ctx # "assertion failed"
                                                /\ conf.cache_setup = "setup_cache_memcached"
                                             THEN all ELSE {},
                        !.thread = IF ctx # "assertion failed" /\ tickets_on
                                   THEN conf.update_thread ELSE "NULL",
                        !.ticket_key_cb = IF ctx # "assertion failed" /\ tickets_on
                                          THEN all ELSE {},
                        !.no_ticket = IF ctx # "assertion failed" /\ num_contexts # 0
                                         /\ conf.update_thread = "NULL"
                                      THEN all ELSE {}]
    /\ UNCHANGED <<mode, lifetime, clock, heap, tickets, rwlock, cb, upd, file, mc, conf, workers, codec>>

\* the updater function of a mode of the maintainers
UpdaterOf(m) ==
    CASE m = "internal" -> "ticket_internal_updater"
      [] m = "file" -> "ticket_file_updater"
      [] m = "memcached" -> "ticket_memcached_updater"

\* conf and the server when the maintainer of mode m runs with lifetime l: one
\* TLS context, the callback installed
RunningConf(m, l) ==
    [ticket_init_defaults(cache_init_defaults(StaticConf)) EXCEPT
        !.update_thread = UpdaterOf(m),
        !.ticket_lifetime = l,
        !.filename = IF m = "file" THEN "tickets.yaml" ELSE "NULL",
        !.host = IF m = "memcached" THEN "cache1" ELSE "NULL",
        !.port = IF m = "memcached" THEN 11211 ELSE 0,
        !.num_threads = IF m = "memcached" THEN 1 ELSE 0,
        !.prefix = IF m = "memcached" THEN ":h2o:ssl-resumption:" ELSE "NULL"]

RunningServer(m) ==
    [NotStarted EXCEPT !.pc = "running", !.num_contexts = 1,
                       !.memc_ctx = IF m = "memcached" THEN "cache1" ELSE "NULL",
                       !.thread = UpdaterOf(m), !.ticket_key_cb = {1}]

ActiveProcs == IF mode = "memcached" THEN Procs ELSE {1}

\* the initial states with the lifetime drawn from lifetimes and the item of the
\* memcached server from items
InitStoreWith(lifetimes, items) ==
    /\ mode \in Modes
    /\ mc \in items
    /\ lifetime \in (IF mode = "file" THEN {DefaultLifetime} ELSE lifetimes)
    /\ file \in (IF mode = "file"
                 THEN [exists : BOOLEAN, mtime : {0, T0 - 1}, doc : 1..Len(FileDocs)]
                 ELSE {[exists |-> FALSE, mtime |-> 0, doc |-> 1]})
    /\ clock = T0
    /\ heap = [p \in Procs |-> [a \in Addrs |-> NoTicket]]
    /\ tickets = [p \in Procs |-> <<>>]
    /\ rwlock = [p \in Procs |-> [readers |-> 0, writer |-> FALSE]]
    /\ cb = [c \in Callbacks |-> IdleCallback]
    /\ upd = [p \in Procs |-> InitUpdater]
    /\ conf = RunningConf(mode, lifetime)
    /\ srv = RunningServer(mode)
    /\ codec = NoCodec

InitStoreOf(lifetimes) == InitStoreWith(lifetimes, {NoItem})

InitStore == InitStoreOf(Lifetimes)

\* one handshake thread
Init == InitStore /\ workers = 1

(***************************************************************************)
(* ticket_key_callback, lines 186-226, in four steps: rdlock; the search   *)
(* for the ticket; the use of the ticket; unlock and return.               *)
(***************************************************************************)
\* the names a client can present in a ticket
PresentedNames == {Name(1, 0), Name(0, 1)} \cup {EphemeralRand(c).name : c \in 1..workers}

\* line 189: pthread_rwlock_rdlock (granted whenever no writer holds the lock)
CbLock(c, enc, key_name) ==
    /\ c <= workers
    /\ cb[c].pc = "idle"
    /\ ~rwlock[1].writer
    /\ rwlock' = [rwlock EXCEPT ![1].readers = @ + 1]
    /\ cb' = [cb EXCEPT ![c] = [IdleCallback EXCEPT !.pc = "locked", !.enc = enc,
                                                     !.key_name = key_name]]
    /\ UNCHANGED <<mode, lifetime, clock, heap, tickets, upd, file, mc, conf, srv, workers, codec>>

\* lines 193-199 (encrypt) and 207-216 (decrypt): select the ticket
CbFind(c) ==
    /\ cb[c].pc = "locked"
    /\ IF cb[c].enc
       THEN LET i == find_ticket_for_encryption(heap[1], tickets[1], clock)
            IN  IF i # 0
                THEN /\ cb' = [cb EXCEPT ![c].pc = "found", ![c].now = clock,
                                         ![c].ticket = tickets[1][i]]
                     /\ heap' = heap
                ELSE LET a == MaxAddr + c
                     IN  /\ heap' = [heap EXCEPT ![1][a] =
                                new_ticket("AES-256-CBC", "SHA256", 0, UINT64_MAX,
                                           EphemeralRand(c))]
                         /\ cb' = [cb EXCEPT ![c].pc = "found", ![c].now = clock,
                                             ![c].ticket = a, ![c].temp_ticket = a]
       ELSE LET i == find_ticket_by_name(heap[1], tickets[1], cb[c].key_name, 1)
            IN  /\ heap' = heap
                /\ IF i # 0
                   THEN cb' = [cb EXCEPT ![c].pc = "found", ![c].ticket = tickets[1][i],
                                         ![c].i = i - 1]
                   ELSE cb' = [cb EXCEPT ![c].pc = "exit", ![c].ret = 0]
    /\ UNCHANGED <<mode, lifetime, clock, tickets, rwlock, upd, file, mc, conf, srv, workers, codec>>

\* a variant of the result of line 220 that never asks for a renewal
always_ok(i) == 1

\* line 220: ret = i == 0 ? 1 : 2, i being the zero-based index of the ticket
renew_unless_newest(i) == IF i = 0 THEN 1 ELSE 2

\* lines 200-205 (encrypt) and 218-220 (decrypt): read the ticket
CbUse(c) ==
    /\ cb[c].pc = "found"
    /\ LET t == heap[1][cb[c].ticket]
       IN  IF cb[c].enc
           THEN /\ cb' = [cb EXCEPT ![c].pc = "exit", ![c].key_name = t.name,
                                    ![c].ctx = <<t.cipher, t.cipher_key>>,
                                    ![c].hctx = <<t.md, t.hmac_key>>,
                                    ![c].ret = 1]
                /\ heap' = IF cb[c].temp_ticket # NULL
                           THEN [heap EXCEPT ![1] = free_ticket(@, cb[c].temp_ticket)]
                           ELSE heap
           ELSE /\ cb' = [cb EXCEPT ![c].pc = "exit",
                                    ![c].ctx = <<t.cipher, t.cipher_key>>,
                                    ![c].hctx = <<t.md, t.hmac_key>>,
                                    ![c].ret = renew_unless_newest(cb[c].i)]
                /\ heap' = heap
    /\ UNCHANGED <<mode, lifetime, clock, tickets, rwlock, upd, file, mc, conf, srv, workers, codec>>

\* lines 223-225: pthread_rwlock_unlock, return ret (the caller takes ret, key_name
\* and the two contexts as they are in the state before this step)
CbUnlock(c) ==
    /\ cb[c].pc = "exit"
    /\ rwlock' = [rwlock EXCEPT ![1].readers = @ - 1]
    /\ cb' = [cb EXCEPT ![c] = IdleCallback]
    /\ UNCHANGED <<mode, lifetime, clock, heap, tickets, upd, file, mc, conf, srv, workers, codec>>

(***************************************************************************)
(* ticket_internal_updater, lines 228-277: one iteration of the loop is    *)
(* the steps from LocalSnapshot to Wake.                                   *)
(***************************************************************************)
\* lines 233-241: read the clock, snapshot the two edges under the shared lock
LocalSnapshot(p) ==
    /\ mode = "internal" /\ p \in ActiveProcs
    /\ upd[p].pc = "top"
    /\ upd[p].ticks < MaxTicks
    /\ ~rwlock[p].writer
    /\ upd' = [upd EXCEPT ![p].pc = "insert", ![p].now = clock, ![p].ticks = @ + 1,
                          ![p].newest_not_before =
                              IF Len(tickets[p]) # 0 THEN heap[p][tickets[p][1]].not_before ELSE 0,
                          ![p].oldest_not_after =
                              IF Len(tickets[p]) # 0
                              THEN heap[p][tickets[p][Len(tickets[p])]].not_after
                              ELSE UINT64_MAX]
    /\ UNCHANGED <<mode, lifetime, clock, heap, tickets, rwlock, cb, file, mc, conf, srv, workers, codec>>

\* a variant of the condition of line 244 with < for <=
insertion_due_strict(newest_not_before, now) == newest_not_before + lifetime \div 4 < now

\* a variant of the insertion that puts the new entry behind the others
insert_at_back(v, a) == Append(v, a)

\* a variant of the condition of line 244 that waits for the newest entry to expire
insertion_due_at_expiry(newest_not_before, now) == newest_not_before + lifetime <= now

\* line 244: the condition under which the loop makes a new entry
insertion_due(newest_not_before, now) == newest_not_before + lifetime \div 4 <= now

\* lines 247-252 and 481-484: make room at the front of the vector (memmove) and
\* put the new entry at index 0
insert_at_front(v, a) == <<a>> \o v

\* lines 244-245: decide whether a new entry is due and allocate it
LocalNewTicket(p) ==
    /\ mode = "internal"
    /\ upd[p].pc = "insert"
    /\ IF insertion_due(upd[p].newest_not_before, upd[p].now)
       THEN \E r \in FreshRand :
                LET a == malloc(heap[p])
                IN  /\ a # NULL
                    /\ heap' = [heap EXCEPT ![p][a] =
                           new_ticket("AES-256-CBC", "SHA256", upd[p].now,
                                      upd[p].now + lifetime - 1, r)]
                    /\ upd' = [upd EXCEPT ![p].pc = "insert_wrlock", ![p].ticket = a]
       ELSE /\ heap' = heap
            /\ upd' = [upd EXCEPT ![p].pc = "expire"]
    /\ UNCHANGED <<mode, lifetime, clock, tickets, rwlock, cb, file, mc, conf, srv, workers, codec>>

\* a variant of the exclusive lock that does not wait for the readers to leave
wrlock_despite_readers(p, from, to) ==
    /\ upd[p].pc = from
    /\ ~rwlock[p].writer
    /\ rwlock' = [rwlock EXCEPT ![p].writer = TRUE]
    /\ upd' = [upd EXCEPT ![p].pc = to]
    /\ UNCHANGED <<mode, lifetime, clock, heap, tickets, cb, file, mc, conf, srv, workers, codec>>

\* pthread_rwlock_wrlock (lines 246, 260, 509, 565): granted when nobody holds the lock
WrLock(p, from, to) ==
    /\ upd[p].pc = from
    /\ ~rwlock[p].writer /\ rwlock[p].readers = 0
    /\ rwlock' = [rwlock EXCEPT ![p].writer = TRUE]
    /\ upd' = [upd EXCEPT ![p].pc = to]
    /\ UNCHANGED <<mode, lifetime, clock, heap, tickets, cb, file, mc, conf, srv, workers, codec>>

\* line 246
LocalInsertLock(p) == mode = "internal" /\ WrLock(p, "insert_wrlock", "insert_locked")

\* lines 247-253: put the new entry in front of the others, unlock
LocalInsert(p) ==
    /\ mode = "internal"
    /\ upd[p].pc = "insert_locked"
    /\ tickets' = [tickets EXCEPT ![p] = insert_at_front(@, upd[p].ticket)]
    /\ rwlock' = [rwlock EXCEPT ![p].writer = FALSE]
    /\ upd' = [upd EXCEPT ![p].pc = "expire", ![p].ticket = NULL]
    /\ UNCHANGED <<mode, lifetime, clock, heap, cb, file, mc, conf, srv, workers, codec>>

\* a variant of the comparison of lines 257 and 263 with <= for <
not_after_le_now(not_after, now) == not_after <= now

\* lines 257 and 263: the entry is expired
not_after_lt_now(not_after, now) == not_after < now

\* line 257: is the oldest entry of the snapshot expired
LocalExpireCheck(p) ==
    /\ mode = "internal"
    /\ upd[p].pc = "expire"
    /\ upd' = [upd EXCEPT ![p].pc =
                  IF not_after_lt_now(upd[p].oldest_not_after, upd[p].now)
                  THEN "expire_wrlock" ELSE "sleep"]
    /\ UNCHANGED <<mode, lifetime, clock, heap, tickets, rwlock, cb, file, mc, conf, srv, workers, codec>>

\* line 260
LocalExpireLock(p) == mode = "internal" /\ WrLock(p, "expire_wrlock", "expire_locked")

\* a variant of the pop that goes on to free_ticket with the exclusive lock held
LocalExpirePopKeepsLock(p) ==
    /\ mode = "internal"
    /\ upd[p].pc = "expire_locked"
    /\ LET n == Len(tickets[p])
       IN  IF n # 0 /\ not_after_lt_now(heap[p][tickets[p][n]].not_after, upd[p].now)
           THEN /\ tickets' = [tickets EXCEPT ![p] = SubSeq(@, 1, n - 1)]
                /\ upd' = [upd EXCEPT ![p].pc = "expire_free",
                                      ![p].expiring_ticket = tickets[p][n]]
                /\ rwlock' = rwlock
           ELSE /\ tickets' = tickets
                /\ upd' = [upd EXCEPT ![p].pc = "sleep"]
                /\ rwlock' = [rwlock EXCEPT ![p].writer = FALSE]
    /\ UNCHANGED <<mode, lifetime, clock, heap, cb, file, mc, conf, srv, workers, codec>>

\* lines 261-269: take the last entry off the store if it is expired, unlock
LocalExpirePop(p) ==
    /\ mode = "internal"
    /\ upd[p].pc = "expire_locked"
    /\ LET n == Len(tickets[p])
       IN  IF n # 0 /\ not_after_lt_now(heap[p][tickets[p][n]].not_after, upd[p].now)
           THEN /\ tickets' = [tickets EXCEPT ![p] = SubSeq(@, 1, n - 1)]
                /\ upd' = [upd EXCEPT ![p].pc = "expire_free",
                                      ![p].expiring_ticket = tickets[p][n]]
           ELSE /\ tickets' = tickets
                /\ upd' = [upd EXCEPT ![p].pc = "sleep"]
    /\ rwlock' = [rwlock EXCEPT ![p].writer = FALSE]
    /\ UNCHANGED <<mode, lifetime, clock, heap, cb, file, mc, conf, srv, workers, codec>>

\* line 270
LocalExpireFree(p) ==
    /\ mode = "internal"
    /\ upd[p].pc = "expire_free"
    /\ heap' = [heap EXCEPT ![p] = free_ticket(@, upd[p].expiring_ticket)]
    /\ upd' = [upd EXCEPT ![p].pc = "expire_wrlock", ![p].expiring_ticket = NULL]
    /\ UNCHANGED <<mode, lifetime, clock, tickets, rwlock, cb, file, mc, conf, srv, workers, codec>>

\* sleep(n): the thread runs again once the clock has reached wake
Sleep(p, n) ==
    /\ upd[p].pc = "sleep"
    /\ upd' = [upd EXCEPT ![p].pc = "sleeping", ![p].wake = clock + n]
    /\ UNCHANGED <<mode, lifetime, clock, heap, tickets, rwlock, cb, file, mc, conf, srv, workers, codec>>

\* line 275: sleep(120 - (rand() >> 16) % 7)
LocalSleep(p) ==
    /\ mode = "internal"
    /\ \E r \in SleepJitters : Sleep(p, SleepBase - r)

\* the sleep returns
Wake(p) ==
    /\ upd[p].pc = "sleeping"
    /\ clock >= upd[p].wake
    /\ upd' = [upd EXCEPT ![p].pc = "top"]
    /\ UNCHANGED <<mode, lifetime, clock, heap, tickets, rwlock, cb, file, mc, conf, srv, workers, codec>>

(***************************************************************************)
(* ticket_file_updater, lines 578-600, and load_tickets_file, 540-576.     *)
(***************************************************************************)
\* line 586: the error of a failed stat is written to stderr unless last_mtime is 0
log_unless_missing(last_mtime) == last_mtime # 0

\* lines 585-597: stat the file and decide whether to load it (stat_failed is the
\* result of this stat, logged whether it wrote the message of line 589)
FileStat(p) ==
    /\ mode = "file" /\ p \in ActiveProcs
    /\ upd[p].pc = "top"
    /\ upd[p].ticks < MaxTicks
    /\ IF ~file.exists
       THEN upd' = [upd EXCEPT ![p].pc = "sleep", ![p].ticks = @ + 1, ![p].last_mtime = 0,
                               ![p].stat_failed = TRUE,
                               ![p].logged = log_unless_missing(upd[p].last_mtime)]
       ELSE IF upd[p].last_mtime # file.mtime
            THEN upd' = [upd EXCEPT ![p].pc = "load", ![p].ticks = @ + 1,
                                    ![p].last_mtime = file.mtime,
                                    ![p].stat_failed = FALSE, ![p].logged = FALSE]
            ELSE upd' = [upd EXCEPT ![p].pc = "sleep", ![p].ticks = @ + 1,
                                    ![p].stat_failed = FALSE, ![p].logged = FALSE]
    /\ UNCHANGED <<mode, lifetime, clock, heap, tickets, rwlock, cb, file, mc, conf, srv, workers, codec>>

\* lines 549-563: read the file, parse it, sort the entries
FileLoad(p) ==
    /\ mode = "file"
    /\ upd[p].pc = "load"
    /\ IF ~file.exists
       THEN /\ upd' = [upd EXCEPT ![p].pc = "sleep"]
            /\ heap' = heap
       ELSE LET parsed == parse_tickets(FileDocs[file.doc])
            IN  IF ~parsed.ok
                THEN /\ upd' = [upd EXCEPT ![p].pc = "sleep"]
                     /\ heap' = [heap EXCEPT ![p] = parse_tickets_error(@, FileDocs[file.doc])]
                ELSE LET new == alloc_tickets(heap[p], parsed.tickets)
                     IN  /\ new.ok
                         /\ heap' = [heap EXCEPT ![p] = new.heap]
                         /\ \E sorted \in qsort(new.heap, new.entries) :
                               upd' = [upd EXCEPT ![p].pc = "swap_wrlock",
                                                  ![p].tickets = sorted]
    /\ UNCHANGED <<mode, lifetime, clock, tickets, rwlock, cb, file, mc, conf, srv, workers, codec>>

\* line 565
FileSwapLock(p) == mode = "file" /\ WrLock(p, "swap_wrlock", "swap_locked")

\* h2o_mem_swap(&session_tickets.tickets, &tickets, ...) and the unlock after it
\* (lines 566-567, 510-511)
SwapTickets(p) ==
    /\ upd[p].pc = "swap_locked"
    /\ tickets' = [tickets EXCEPT ![p] = upd[p].tickets]
    /\ upd' = [upd EXCEPT ![p].pc = "swap_free", ![p].tickets = tickets[p]]
    /\ rwlock' = [rwlock EXCEPT ![p].writer = FALSE]
    /\ UNCHANGED <<mode, lifetime, clock, heap, cb, file, mc, conf, srv, workers, codec>>

\* lines 566-567
FileSwap(p) == mode = "file" /\ SwapTickets(p)

\* lines 569-573: free the entries that the swap took out of the store
FileFree(p) ==
    /\ mode = "file"
    /\ upd[p].pc = "swap_free"
    /\ heap' = [heap EXCEPT ![p] = free_tickets(@, upd[p].tickets)]
    /\ upd' = [upd EXCEPT ![p].pc = "sleep", ![p].tickets = <<>>]
    /\ UNCHANGED <<mode, lifetime, clock, tickets, rwlock, cb, file, mc, conf, srv, workers, codec>>

\* line 598: sleep(10)
FileSleep(p) == mode = "file" /\ Sleep(p, FilePollSecs)

\* The operator's changes to the file are seen by the updater in stat and in the
\* read only: a change made while the updater is between the read and its sleep is
\* taken at the start of the sleep, one made before the first stat is in Init.
OperatorCanAct == upd[1].pc \in {"sleeping", "load"} /\ upd[1].ticks < MaxTicks

\* the operator writes document d to the file
OperatorWrite(d) ==
    /\ mode = "file"
    /\ OperatorCanAct
    /\ ~(file.exists /\ file.doc = d /\ file.mtime = clock)
    /\ file' = [exists |-> TRUE, mtime |-> clock, doc |-> d]
    /\ UNCHANGED <<mode, lifetime, clock, heap, tickets, rwlock, cb, upd, mc, conf, srv, workers, codec>>

\* the operator removes the file
OperatorRemove ==
    /\ mode = "file"
    /\ OperatorCanAct
    /\ file.exists
    /\ file' = [file EXCEPT !.exists = FALSE]
    /\ UNCHANGED <<mode, lifetime, clock, heap, tickets, rwlock, cb, upd, mc, conf, srv, workers, codec>>

\* the operator puts the file back as it was, its modification time included
OperatorRestore ==
    /\ mode = "file"
    /\ OperatorCanAct
    /\ ~file.exists
    /\ file' = [file EXCEPT !.exists = TRUE]
    /\ UNCHANGED <<mode, lifetime, clock, heap, tickets, rwlock, cb, upd, mc, conf, srv, workers, codec>>

(***************************************************************************)
(* ticket_memcached_updater, lines 518-538, and                            *)
(* ticket_memcached_update_tickets, lines 445-516.  The server executes    *)
(* one request at a time; an item written with expiry n is gone n seconds  *)
(* after the write.                                                        *)
(***************************************************************************)
\* the item as a GET sees it
McVisible == mc.present /\ clock < mc.expire

\* lines 525-531: connect
McConnect(p) ==
    /\ mode = "memcached" /\ p \in ActiveProcs
    /\ upd[p].pc = "top"
    /\ upd' = [upd EXCEPT ![p].pc = "get", ![p].retries = 0]
    /\ UNCHANGED <<mode, lifetime, clock, heap, tickets, rwlock, cb, file, mc, conf, srv, workers, codec>>

\* a variant in which the new entry is valid from now on in every case
mc_not_before_now(has_valid_ticket, now) == now

\* line 478
mc_not_before(has_valid_ticket, now) == IF has_valid_ticket THEN now + McOffset ELSE now

\* the sum of two uint64_t values
uint64_add(a, b) == (a + b) % (UINT64_MAX + 1)

\* line 476: there is no valid entry, or the first entry is older than a quarter
\* of the lifetime (not_before is a uint64_t, lifetime an unsigned int, now a
\* time_t: the sum and the comparison are made in uint64_t)
rotation_due(has_valid_ticket, first_not_before, now) ==
    ~has_valid_ticket \/ uint64_add(first_not_before, lifetime \div 4) < now

\* lines 455-486: GET, parse, sort, and either decide to install what was read or
\* put a new entry in front of it (serialize_tickets of the result is what McWrite
\* sends)
McGet(p) ==
    /\ mode = "memcached"
    /\ upd[p].pc = "get"
    /\ upd[p].ticks < MaxTicks
    /\ LET now == clock
           resp == IF McVisible THEN [status |-> "OK", cas_unique |-> mc.cas]
                   ELSE [status |-> "NOTFOUND", cas_unique |-> 0]
           parsed == IF resp.status = "OK" THEN parse_tickets(serialize_tickets(mc.data))
                     ELSE [ok |-> TRUE, tickets |-> <<>>]
       IN  IF ~parsed.ok
           THEN /\ upd' = [upd EXCEPT ![p].pc = "sleep", ![p].ticks = @ + 1, ![p].now = now,
                                      ![p].resp = resp]
                /\ heap' = [heap EXCEPT ![p] =
                               parse_tickets_error(@, serialize_tickets(mc.data))]
           ELSE LET new == alloc_tickets(heap[p], parsed.tickets)
                IN  /\ new.ok
                    /\ \E sorted \in qsort(new.heap, new.entries) :
                          LET has_valid_ticket ==
                                  find_ticket_for_encryption(new.heap, sorted, now) # 0
                          IN  IF rotation_due(has_valid_ticket,
                                              IF sorted = <<>> THEN 0
                                              ELSE new.heap[sorted[1]].not_before, now)
                              THEN LET not_before == mc_not_before(has_valid_ticket, now)
                                       a == malloc(new.heap)
                                   IN  /\ a # NULL
                                       /\ \E r \in FreshRand :
                                             LET h == [new.heap EXCEPT ![a] =
                                                         new_ticket("AES-256-CBC", "SHA256", not_before,
                                                                    not_before + lifetime, r)]
                                                 v == insert_at_front(sorted, a)
                                             IN  /\ heap' = [heap EXCEPT ![p] = h]
                                                 /\ upd' = [upd EXCEPT
                                                       ![p].pc = "write", ![p].ticks = @ + 1,
                                                       ![p].now = now, ![p].resp = resp,
                                                       ![p].tickets = v]
                              ELSE /\ heap' = [heap EXCEPT ![p] = new.heap]
                                   /\ upd' = [upd EXCEPT ![p].pc = "swap_wrlock", ![p].ticks = @ + 1,
                                                         ![p].now = now, ![p].resp = resp,
                                                         ![p].tickets = sorted]
    /\ UNCHANGED <<mode, lifetime, clock, tickets, rwlock, cb, file, mc, conf, srv, workers, codec>>

\* the outcomes of the write: the request is sent and its response received; the
\* send fails (yrmcds_add or yrmcds_set returns an error, lines 490 and 496); the
\* request is sent and the receive fails (line 500)
WriteOutcomes == {"OK", "SEND_ERROR", "RECV_ERROR"}

\* a variant in which the server stores whatever a SET sends, whatever the CAS value
mc_stores_unconditionally(resp) == TRUE

\* the server's decision on the request of lines 487-499: an ADD is stored when
\* there is no item, a SET with the CAS value of the GET when the item still has it
mc_stores(resp) ==
    IF resp.status = "NOTFOUND"
    THEN ~McVisible
    ELSE McVisible /\ mc.cas = resp.cas_unique

\* a variant that goes on to install the pass's own sequence when the server
\* stored the write
write_exit_install_if_stored(outcome, stored) ==
    IF outcome # "OK" THEN "sleep" ELSE IF stored THEN "swap_wrlock" ELSE "get"

\* a variant that asks for another pass only when the server rejected the write
write_exit_retry_if_rejected(outcome, stored) ==
    IF outcome = "OK" /\ ~stored THEN "get" ELSE "sleep"

\* lines 500-505 and 532-536: where the updater goes on after the write: to
\* another pass when the response was received (retry = 1), whatever its status,
\* and to the sleep when the send or the receive failed (retry = 0)
write_exit(outcome, stored) == IF outcome = "OK" THEN "get" ELSE "sleep"

\* lines 487-505 and 513-515: ADD when the GET found nothing, else SET with the
\* CAS value of the GET; receive the response; free the local entries; ask for
\* another pass (retry = 1) unless the send or the receive failed (a peer is
\* followed up to its first transport error and the sleep after it)
McWrite(p) ==
    /\ mode = "memcached"
    /\ upd[p].pc = "write"
    /\ \E outcome \in WriteOutcomes :
          /\ outcome # "OK" => mc.faults < MaxFaults
          /\ LET faults == IF outcome = "OK" THEN mc.faults ELSE mc.faults + 1
             IN  mc' = IF outcome # "SEND_ERROR" /\ mc_stores(upd[p].resp)
                       THEN [present |-> TRUE,
                             data |-> [i \in 1..Len(upd[p].tickets) |->
                                          heap[p][upd[p].tickets[i]]],
                             cas |-> mc.cas + 1,
                             expire |-> clock + lifetime,
                             faults |-> faults,
                             by |-> p]
                       ELSE [mc EXCEPT !.faults = faults]
          /\ upd' = [upd EXCEPT ![p].pc = write_exit(outcome, mc_stores(upd[p].resp)),
                                ![p].ticks = IF outcome = "OK" THEN @ ELSE MaxTicks,
                                ![p].tickets = <<>>,
                                ![p].retries =
                                    IF write_exit(outcome, mc_stores(upd[p].resp)) = "get"
                                    THEN @ + 1 ELSE @]
    /\ heap' = [heap EXCEPT ![p] = free_tickets(@, upd[p].tickets)]
    /\ UNCHANGED <<mode, lifetime, clock, tickets, rwlock, cb, file, conf, srv, workers, codec>>

\* line 509
McSwapLock(p) == mode = "memcached" /\ WrLock(p, "swap_wrlock", "swap_locked")

\* lines 510-511
McSwap(p) == mode = "memcached" /\ SwapTickets(p)

\* lines 513-515: free the entries that the swap took out of the store
McFree(p) ==
    /\ mode = "memcached"
    /\ upd[p].pc = "swap_free"
    /\ heap' = [heap EXCEPT ![p] = free_tickets(@, upd[p].tickets)]
    /\ upd' = [upd EXCEPT ![p].pc = "sleep", ![p].tickets = <<>>]
    /\ UNCHANGED <<mode, lifetime, clock, tickets, rwlock, cb, file, mc, conf, srv, workers, codec>>

\* lines 535-536: close the connection, sleep(60)
McSleep(p) == mode = "memcached" /\ Sleep(p, McPollSecs)

(***************************************************************************)
(* The clock.                                                              *)
(***************************************************************************)
\* the instants at which a comparison with ticket t changes its value (and, for
\* the local maintainer, the second before the comparison of line 244 does)
TicketInstants(t) ==
    {t.not_before, t.not_after + 1}
        \cup (IF mode = "internal"
              THEN {t.not_before + lifetime \div 4 - 1, t.not_before + lifetime \div 4,
                    t.not_after}
              ELSE {})
        \cup (IF mode = "file" THEN {t.not_after} ELSE {})
        \cup (IF mode = "memcached"
              THEN {t.not_before + lifetime \div 4, t.not_before + lifetime \div 4 + 1}
              ELSE {})

Instants ==
    UNION {TicketInstants(heap[p][a]) : p \in Procs, a \in Addrs}
        \cup {upd[p].wake : p \in Procs}
        \cup {mc.expire}

\* a maintainer is at a point where its thread is suspended for seconds: in a
\* sleep (the steps between two sleeps take no time)
Blocked(p) == upd[p].pc = "sleeping"

\* the clock advances to the next instant of interest while the maintainers
\* sleep; a call of the callback takes no time (a reader that holds the lock
\* for longer delays the maintainer as a longer sleep does)
TimePasses ==
    /\ \A p \in ActiveProcs : Blocked(p)
    /\ \A c \in Callbacks : cb[c].pc = "idle"
    /\ \E t \in Instants :
          /\ clock < t /\ t <= T0 + Horizon
          /\ clock' = t
    /\ UNCHANGED <<mode, lifetime, heap, tickets, rwlock, cb, upd, file, mc, conf, srv, workers, codec>>

NextCallback ==
    \/ \E c \in Callbacks, enc \in BOOLEAN, key_name \in PresentedNames :
          CbLock(c, enc, IF enc THEN ZeroName ELSE key_name)
    \/ \E c \in Callbacks : CbFind(c)
    \/ \E c \in Callbacks : CbUse(c)
    \/ \E c \in Callbacks : CbUnlock(c)
    \/ \E p \in Procs : Wake(p)
    \/ TimePasses

NextLocal ==
    \/ \E p \in Procs : LocalSnapshot(p)
    \/ \E p \in Procs : LocalNewTicket(p)
    \/ \E p \in Procs : LocalInsertLock(p)
    \/ \E p \in Procs : LocalInsert(p)
    \/ \E p \in Procs : LocalExpireCheck(p)
    \/ \E p \in Procs : LocalExpireLock(p)
    \/ \E p \in Procs : LocalExpirePop(p)
    \/ \E p \in Procs : LocalExpireFree(p)
    \/ \E p \in Procs : LocalSleep(p)

NextFile ==
    \/ \E p \in Procs : FileStat(p)
    \/ \E p \in Procs : FileLoad(p)
    \/ \E p \in Procs : FileSwapLock(p)
    \/ \E p \in Procs : FileSwap(p)
    \/ \E p \in Procs : FileFree(p)
    \/ \E p \in Procs : FileSleep(p)
    \/ \E d \in 1..Len(FileDocs) : OperatorWrite(d)
    \/ OperatorRemove
    \/ OperatorRestore

NextMemcached ==
    \/ \E p \in Procs : McConnect(p)
    \/ \E p \in Procs : McGet(p)
    \/ \E p \in Procs : McWrite(p)
    \/ \E p \in Procs : McSwapLock(p)
    \/ \E p \in Procs : McSwap(p)
    \/ \E p \in Procs : McFree(p)
    \/ \E p \in Procs : McSleep(p)

Next == NextCallback \/ NextLocal \/ NextFile \/ NextMemcached

\* every mode
Spec == Init /\ [][Next]_vars

\* the process runs ticket_internal_updater
InitLocal == Init /\ mode = "internal"

NextLocalMode == NextCallback \/ NextLocal

SpecLocal == InitLocal /\ [][NextLocalMode]_vars

\* the process runs ticket_file_updater
InitFile == Init /\ mode = "file"

NextFileMode == NextCallback \/ NextFile

SpecFile == InitFile /\ [][NextFileMode]_vars

\* the processes run ticket_memcached_updater
InitMemcached == Init /\ mode = "memcached"

NextMemcachedMode == NextCallback \/ NextMemcached

SpecMemcached == InitMemcached /\ [][NextMemcachedMode]_vars


(***************************************************************************)
(* Properties of the store and of ticket_key_callback.                     *)


(***************************************************************************)
(* The local maintainer with NumCallbacks handshake threads that issue     *)
(* tickets.  The maintainer thread takes each step that stays or keeps     *)
(* becoming possible, a call of the callback that has begun goes on to its *)
(* return; when the handshake threads call is up to the clients.           *)
(***************************************************************************)
InitStarve ==
    /\ InitStore
    /\ mode = "internal" /\ lifetime = DefaultLifetime
    /\ workers = NumCallbacks

\* a handshake thread is asked for a new ticket
Handshake == \E c \in Callbacks : CbLock(c, TRUE, ZeroName)

\* a call of the callback goes on
CallbackRuns(c) == CbFind(c) \/ CbUse(c) \/ CbUnlock(c)

NextStarve ==
    \/ Handshake
    \/ \E c \in Callbacks : CbFind(c)
    \/ \E c \in Callbacks : CbUse(c)
    \/ \E c \in Callbacks : CbUnlock(c)
    \/ \E p \in Procs : Wake(p)
    \/ TimePasses
    \/ NextLocal

FairStarve ==
    /\ SF_vars(NextLocal)
    /\ WF_vars(Wake(1))
    /\ \A c \in Callbacks : WF_vars(CallbackRuns(c))

SpecStarve == InitStarve /\ [][NextStarve]_vars /\ FairStarve

(***************************************************************************)
(* The startup alone: the maintainers and the callback do not run.         *)
(***************************************************************************)
InitConfig ==
    /\ mode = "internal" /\ lifetime = DefaultLifetime
    /\ mc = NoItem
    /\ file = [exists |-> FALSE, mtime |-> 0, doc |-> 1]
    /\ clock = T0
    /\ heap = [p \in Procs |-> [a \in Addrs |-> NoTicket]]
    /\ tickets = [p \in Procs |-> <<>>]
    /\ rwlock = [p \in Procs |-> [readers |-> 0, writer |-> FALSE]]
    /\ cb = [c \in Callbacks |-> IdleCallback]
    /\ upd = [p \in Procs |-> InitUpdater]
    /\ conf = StaticConf
    /\ srv = NotStarted
    /\ workers = 1
    /\ codec = NoCodec

NextConfig ==
    \/ InitOpenssl
    \/ \E node \in ConfigNodes : OnConfig(node)
    \/ \E num_contexts \in 0..MaxContexts : SetupSessionResumption(num_contexts)

SpecConfig == InitConfig /\ [][NextConfig]_vars

(***************************************************************************)
\* the keys of the store of process p, in the order in which the callback scans them
Store(p) == [i \in 1..Len(tickets[p]) |-> heap[p][tickets[p][i]]]

\* x is less than y, byte by byte
NameLess(x, y) ==
    \E k \in 1..NameLen : x[k] < y[k] /\ \A j \in 1..(k - 1) : x[j] = y[j]

\* C1: in every state of the store the keys are in strict total order: for all
\* i < j, store[i].not_before > store[j].not_before, or the two are equal and
\* store[i].name < store[j].name bytewise.
C1_StrictTotalOrder ==
    \A p \in Procs : \A i, j \in 1..Len(tickets[p]) :
        i < j =>
            LET x == Store(p)[i]
                y == Store(p)[j]
            IN  \/ x.not_before > y.not_before
                \/ x.not_before = y.not_before /\ NameLess(x.name, y.name)

\* C2: no two keys of the store have the same name, whatever the file or the
\* cache value lists.
C2_NamesDistinct ==
    \A p \in Procs : \A i, j \in 1..Len(tickets[p]) :
        i # j => Store(p)[i].name # Store(p)[j].name

\* what parse_tickets makes of each document
ParsedDocs == [d \in 1..Len(FileDocs) |-> parse_tickets(FileDocs[d])]

\* in file mode the store is empty or holds exactly the entries of one document
\* that parse_tickets accepts: a document with a rejected entry installs nothing
StoreIsWholeDocument ==
    mode = "file" =>
        \/ Len(tickets[1]) = 0
        \/ \E d \in 1..Len(FileDocs) :
              LET parsed == ParsedDocs[d]
              IN  /\ parsed.ok
                  /\ Len(parsed.tickets) = Len(tickets[1])
                  /\ \E f \in Permutations(1..Len(tickets[1])) :
                        \A i \in 1..Len(tickets[1]) : Store(1)[i] = parsed.tickets[f[i]]

\* C3: every key in the store has not_before <= not_after, whether the local
\* maintainer made it, the cluster maintainer made it, or it was parsed from a
\* file or a cache value; a document with an entry whose not_after is less than
\* its not_before is rejected as a whole.
C3_WindowNotEmpty ==
    /\ \A p \in Procs : \A i \in 1..Len(tickets[p]) :
          Store(p)[i].not_before <= Store(p)[i].not_after
    /\ StoreIsWholeDocument

\* the maintainer has read the document whose second entry has not_after <
\* not_before, while the store holds the keys of an earlier load
C3_Witness ==
    /\ mode = "file" /\ file.exists /\ ~parse_tickets(FileDocs[file.doc]).ok
    /\ upd[1].pc = "sleeping" /\ upd[1].last_mtime = file.mtime
    /\ Len(tickets[1]) > 0

\* the addresses in the store of process p
StoreAddrs(p) == {tickets[p][i] : i \in 1..Len(tickets[p])}

\* what a callback sees while it holds the shared lock: the lock is held in
\* shared mode, every entry of the store is allocated, and the ticket the
\* callback is about to read is an allocated entry of the store (or its own
\* ephemeral ticket)
C4_State ==
    /\ \A p \in Procs : \A a \in StoreAddrs(p) : heap[p][a].alloc
    /\ \A p \in Procs : rwlock[p].writer => rwlock[p].readers = 0
    /\ \A c \in Callbacks :
          cb[c].pc # "idle" => rwlock[1].readers > 0 /\ ~rwlock[1].writer
    /\ \A c \in Callbacks :
          cb[c].pc = "found" =>
              /\ heap[1][cb[c].ticket].alloc
              /\ cb[c].ticket \in StoreAddrs(1) \/ cb[c].ticket = cb[c].temp_ticket

\* a step changes the store only under the exclusive lock, and changes neither
\* the store nor any of its keys while a callback is running
C4_Step ==
    /\ \A p \in Procs : tickets'[p] # tickets[p] => rwlock[p].writer
    /\ (\E c \in Callbacks : cb[c].pc # "idle") =>
          /\ tickets'[1] = tickets[1]
          /\ \A a \in StoreAddrs(1) : heap'[1][a] = heap[1][a]

\* C4: under any interleaving of callbacks with the maintainer, a callback never
\* reads a key that has been wiped or freed and never sees a store that changes
\* during the call: callbacks hold the shared lock for the whole call, every
\* change of the store happens under the exclusive lock, and a key is freed only
\* when the store no longer holds it.
C4_CallbackSeesStableStore == []C4_State /\ [][C4_Step]_vars

\* a callback has found a key of the store and is about to read it while the
\* maintainer waits for the exclusive lock
C4_Witness ==
    \E c \in Callbacks :
        /\ cb[c].pc = "found" /\ cb[c].temp_ticket = NULL
        /\ upd[1].pc \in {"insert_wrlock", "expire_wrlock", "swap_wrlock"}

\* C5: the encrypt path at time now takes the first key in store order with
\* not_before <= now; if now <= its not_after that key is used (its name goes to
\* key_name, its secrets to the two contexts), otherwise, or when there is no
\* such key, an ephemeral key is used; the result is 1 in every case.
C5_EncryptKey ==
    \A c \in Callbacks :
        (cb[c].pc = "exit" /\ cb[c].enc) =>
            LET st == Store(1)
                now == cb[c].now
                begun == {i \in 1..Len(st) : st[i].not_before <= now}
                first == CHOOSE i \in begun : \A j \in begun : i <= j
            IN  /\ cb[c].ret = 1
                /\ IF begun # {} /\ now <= st[first].not_after
                   THEN /\ cb[c].temp_ticket = NULL
                        /\ cb[c].key_name = st[first].name
                        /\ cb[c].ctx = <<st[first].cipher, st[first].cipher_key>>
                        /\ cb[c].hctx = <<st[first].md, st[first].hmac_key>>
                        /\ st[first].not_before <= now /\ now <= st[first].not_after
                   ELSE /\ cb[c].temp_ticket # NULL
                        /\ cb[c].key_name = EphemeralRand(c).name
                        /\ cb[c].ctx = <<"AES-256-CBC", EphemeralRand(c).cipher_key>>
                        /\ cb[c].hctx = <<"SHA256", EphemeralRand(c).hmac_key>>

\* an encrypt call has passed over a key that is not valid yet and used the
\* valid key behind it
C5_Witness ==
    \E c \in Callbacks :
        /\ cb[c].pc = "exit" /\ cb[c].enc /\ cb[c].temp_ticket = NULL
        /\ Len(tickets[1]) >= 2
        /\ Store(1)[1].not_before > cb[c].now
        /\ cb[c].key_name = Store(1)[2].name

\* C6: the decrypt path returns 0 and leaves the two contexts untouched when no
\* key of the store has the presented name; otherwise it returns 1 when the
\* matched key (the first with that name) is at index 0 and 2 when it is at a
\* greater index, and the contexts hold the secrets of the matched key.
C6_DecryptResult ==
    \A c \in Callbacks :
        (cb[c].pc = "exit" /\ ~cb[c].enc) =>
            LET st == Store(1)
                named == {i \in 1..Len(st) : st[i].name = cb[c].key_name}
                first == CHOOSE i \in named : \A j \in named : i <= j
            IN  IF named = {}
                THEN cb[c].ret = 0 /\ cb[c].ctx = <<>> /\ cb[c].hctx = <<>>
                ELSE /\ cb[c].ret = (IF first = 1 THEN 1 ELSE 2)
                     /\ cb[c].ctx = <<st[first].cipher, st[first].cipher_key>>
                     /\ cb[c].hctx = <<st[first].md, st[first].hmac_key>>

\* a decrypt call has matched a key that is not the newest
C6_Witness ==
    \E c \in Callbacks :
        /\ cb[c].pc = "exit" /\ ~cb[c].enc /\ cb[c].ret = 2
        /\ Store(1)[2].name = cb[c].key_name

\* before an encrypt call that used an ephemeral key returns, the key is wiped
\* and freed and the store has no key of that name; a decrypt call that is
\* given the name of an ephemeral key returns 0
C7_State ==
    /\ \A c \in Callbacks :
          (cb[c].pc = "exit" /\ cb[c].enc /\ cb[c].temp_ticket # NULL) =>
              /\ heap[1][cb[c].temp_ticket] = NoTicket
              /\ cb[c].temp_ticket \notin StoreAddrs(1)
              /\ \A i \in 1..Len(tickets[1]) : Store(1)[i].name # cb[c].key_name
    /\ \A c, d \in Callbacks :
          (cb[c].pc = "exit" /\ ~cb[c].enc /\ cb[c].key_name = EphemeralRand(d).name) =>
              cb[c].ret = 0

\* the steps of a callback leave the store and its keys as they are
C7_Step ==
    cb' # cb =>
        /\ tickets' = tickets
        /\ \A p \in Procs : \A a \in StoreAddrs(p) : heap'[p][a] = heap[p][a]

\* C7: the callback never changes the store; an ephemeral key that the encrypt
\* path falls back to is wiped and freed before the call returns and is never
\* installed, so a decrypt call with the key_name it wrote returns 0.
C7_CallbackLeavesStore == []C7_State /\ [][C7_Step]_vars

\* an encrypt call on a store that has keys, none of them usable, is about to
\* return after using an ephemeral key
C7_Witness ==
    \E c \in Callbacks :
        /\ cb[c].pc = "exit" /\ cb[c].enc /\ cb[c].temp_ticket # NULL
        /\ Len(tickets[1]) > 0

\* C8: a decrypt call never returns 1 or 2 for a key whose not_after < now: the
\* search of a decrypt call (whose result is then 1 or 2) never ends at a key
\* that has expired at the time of the call.
C8_DecryptNeverAcceptsExpired ==
    [][\A c \in Callbacks :
          (cb[c].pc = "locked" /\ ~cb[c].enc /\ cb'[c].pc = "found") =>
              heap[1][cb'[c].ticket].not_after >= clock]_vars

(***************************************************************************)
(* Properties of ticket_internal_updater.                                  *)
(***************************************************************************)
\* the step of the local maintainer that decides whether a new key is due
LocalDecides == upd[1].pc = "insert" /\ upd'[1].pc # "insert"

\* the step of the local maintainer that puts the new key into the store
LocalInserts == upd[1].pc = "insert_locked" /\ upd'[1].pc # "insert_locked"

\* the store of process 1 after the step
StoreAfter == [i \in 1..Len(tickets'[1]) |-> heap'[1][tickets'[1][i]]]

\* a tick at time now decides to insert exactly when the store is empty or
\* newest.not_before + lifetime/4 <= now; the key it inserts has not_before = now
\* and not_after = now + lifetime - 1 and goes to index 0 with the other keys
\* behind it in their order; nothing else makes the store longer
C9_Step ==
    /\ LocalDecides =>
          LET now == upd[1].now
              due == Len(tickets[1]) = 0
                         \/ Store(1)[1].not_before + lifetime \div 4 <= now
          IN  /\ due <=> upd'[1].pc = "insert_wrlock"
              /\ ~due => upd'[1].pc = "expire"
              /\ tickets' = tickets
    /\ LocalInserts =>
          LET k == heap[1][upd[1].ticket]
          IN  /\ k.alloc
              /\ k.not_before = upd[1].now
              /\ k.not_after = upd[1].now + lifetime - 1
              /\ StoreAfter = <<k>> \o Store(1)
    /\ Len(tickets'[1]) > Len(tickets[1]) => LocalInserts

\* the first tick, on the empty store, with lifetime 3600
C9_FirstTick ==
    (lifetime = 3600 /\ upd[1].ticks = 1 /\ upd[1].pc \in {"sleep", "sleeping"}) =>
        /\ Len(tickets[1]) = 1
        /\ Store(1)[1].not_after = Store(1)[1].not_before + 3599

\* C9: one tick of the local maintainer at time now inserts a new key exactly
\* when the store is empty or newest.not_before + lifetime/4 <= now; the key has
\* not_before = now and not_after = now + lifetime - 1, is placed at index 0, and
\* the keys that were in the store keep their order behind it; from the empty
\* store with lifetime 3600 one tick leaves exactly one key, with not_after =
\* not_before + 3599.
C9_LocalInsertion == []C9_FirstTick /\ [][C9_Step]_vars

\* a second key has been inserted in front of the first, which is not yet
\* a quarter of the lifetime old at the tick before
C9_Witness ==
    /\ mode = "internal" /\ lifetime = 200
    /\ Len(tickets[1]) = 2
    /\ Store(1)[1].not_before = upd[1].now
    /\ Store(1)[1].not_before >= Store(1)[2].not_before + lifetime \div 4
    /\ upd[1].pc = "expire"

\* the scenario of C10: lifetime 3600, one key in the store, a tick at time now
\* sees the key with not_before = now - age and not_after = now - age + 3599
CadenceScenario(age) ==
    /\ mode = "internal" /\ lifetime = 3600
    /\ Len(tickets[1]) = 1
    /\ Store(1)[1].not_before = upd[1].now - age
    /\ Store(1)[1].not_after = upd[1].now - age + 3599

\* C10 as stated: with lifetime 3600 and one key with not_before = now - 900
\* and not_after = now + 2699, a tick at now performs no insertion and a tick at
\* now + 1 (the key then being 901 seconds old) performs one insertion at index 0.
C10_NoInsertionAtQuarter ==
    [][/\ (LocalDecides /\ CadenceScenario(900)) => upd'[1].pc = "expire"
       /\ (LocalDecides /\ CadenceScenario(901)) => upd'[1].pc = "insert_wrlock"]_vars

\* C10 as the code has it: with lifetime 3600 and one key with not_before =
\* now - 900 and not_after = now + 2699, a tick at now performs exactly one
\* insertion, at index 0; a tick one second earlier, the key being 899 seconds
\* old, performs no insertion.
C10_InsertionAtQuarter ==
    [][/\ (LocalDecides /\ CadenceScenario(900)) => upd'[1].pc = "insert_wrlock"
       /\ (LocalInserts /\ CadenceScenario(900)) =>
             /\ Len(tickets'[1]) = 2
             /\ StoreAfter[1].not_before = upd[1].now
             /\ StoreAfter[2] = Store(1)[1]
       /\ (LocalDecides /\ CadenceScenario(899)) =>
             upd'[1].pc = "expire" /\ tickets' = tickets]_vars

\* the tick at now = not_before + 900 has inserted its key at index 0
C10_Witness ==
    /\ mode = "internal" /\ lifetime = 3600
    /\ upd[1].pc = "expire"
    /\ Len(tickets[1]) = 2
    /\ Store(1)[1].not_before = upd[1].now
    /\ Store(1)[2].not_before = upd[1].now - 900
    /\ Store(1)[2].not_after = upd[1].now + 2699

\* the tick one second earlier has left the store with its one key
C10_WitnessEarlier ==
    /\ upd[1].pc = "expire" /\ CadenceScenario(899)

\* the step of the local maintainer that takes a key off the store
LocalPops == upd[1].pc = "expire_locked" /\ upd'[1].pc = "expire_free"

\* at the end of a tick at time now no key of the store has not_after < now
C11_PrunedAtEndOfTick ==
    (mode = "internal" /\ upd[1].pc = "sleep") =>
        \A i \in 1..Len(tickets[1]) : Store(1)[i].not_after >= upd[1].now

\* the store gets shorter only by the pop of the local maintainer, which takes
\* off one key, the last, whose not_after is less than the now of the tick
C11_Step ==
    mode = "internal" =>
        /\ Len(tickets'[1]) < Len(tickets[1]) => LocalPops
        /\ LocalPops =>
              /\ StoreAfter = SubSeq(Store(1), 1, Len(tickets[1]) - 1)
              /\ Store(1)[Len(tickets[1])].not_after < upd[1].now

\* C11: after a tick of the local maintainer at time now every key that had
\* not_after < now has been removed from the store and no key with not_after >=
\* now has been removed, for every store the local maintainer can have produced.
C11_LocalPruning == []C11_PrunedAtEndOfTick /\ [][C11_Step]_vars

\* the third tick has inserted the third key and removed the first, which had
\* expired; the second is still in the store
C11_Witness ==
    /\ mode = "internal" /\ lifetime = 200
    /\ upd[1].pc = "sleep" /\ upd[1].ticks = 3
    /\ Len(tickets[1]) = 2

(***************************************************************************)
(* File mode: the reload of the store.                                     *)
(***************************************************************************)
\* s and t hold the same ticket values, each as often as the other
SameKeys(s, t) ==
    /\ Len(s) = Len(t)
    /\ \E f \in Permutations(1..Len(s)) : \A i \in 1..Len(s) : s[i] = t[f[i]]

\* the order that the comparison of the store accepts
InSortedOrder(s) ==
    \A i \in 1..(Len(s) - 1) : ticket_sort_compare(s[i], s[i + 1]) <= 0

FileStats == upd[1].pc = "top" /\ upd'[1].pc # "top"
FileLoads == upd[1].pc = "load" /\ upd'[1].pc # "load"
FileSwaps == upd[1].pc = "swap_locked" /\ upd'[1].pc = "swap_free"
FileParses == file.exists /\ ParsedDocs[file.doc].ok

C12_Step ==
    mode = "file" =>
        /\ (FileStats /\ file.exists /\ upd[1].last_mtime # file.mtime) => upd'[1].pc = "load"
        /\ FileLoads => (upd'[1].pc = "swap_wrlock" <=> FileParses)
        /\ tickets'[1] # tickets[1] => FileSwaps
        /\ FileSwaps =>
              /\ rwlock[1].writer /\ rwlock[1].readers = 0
              /\ FileParses
              /\ SameKeys(StoreAfter, ParsedDocs[file.doc].tickets)
              /\ InSortedOrder(StoreAfter)
              /\ StoreAddrs(1) \cap {tickets'[1][i] : i \in 1..Len(tickets'[1])} = {}
        /\ (\E c \in Callbacks : cb[c].pc # "idle") =>
              /\ tickets'[1] = tickets[1]
              /\ StoreAfter = Store(1)

\* C12: in file mode a tick that sees a changed mtime reads the file, and when the
\* file parses the store is replaced as a whole while the maintainer holds the
\* exclusive lock and no callback holds the shared lock: the store then holds
\* exactly the keys listed in the file, in the order of the comparison, in
\* entries of which none was in the store before; the store changes in no other
\* step, so a callback in progress sees the old store or the new one, whole.
C12_FileReload == [][C12_Step]_vars

\* a store of two keys has been replaced by the different keys of another file
C12_Witness ==
    /\ mode = "file"
    /\ upd[1].pc = "swap_free"
    /\ Len(upd[1].tickets) = 2 /\ Len(tickets[1]) = 2
    /\ \A i \in 1..2 : \A j \in 1..2 : Store(1)[i] # heap[1][upd[1].tickets[j]]

\* the documents with an element that parse_ticket_entry rejects
RejectedDocs ==
    {d \in 1..Len(FileDocs) :
        \E i \in 1..Len(FileDocs[d].elements) : ~parse_ticket_entry(FileDocs[d].elements[i]).ok}

C13_Step ==
    mode = "file" =>
        /\ (FileStats /\ ~file.exists) =>
              /\ upd'[1].pc = "sleep"
              /\ tickets' = tickets /\ heap' = heap
        /\ (FileLoads /\ (~file.exists \/ file.doc \in RejectedDocs)) =>
              /\ upd'[1].pc = "sleep"
              /\ tickets' = tickets /\ heap' = heap
              /\ upd'[1].last_mtime = upd[1].last_mtime
        /\ ~FileSwaps => (tickets'[1] = tickets[1] /\ StoreAfter = Store(1))
        /\ upd'[1].last_mtime # upd[1].last_mtime => FileStats
        /\ (FileStats /\ file.exists /\ upd[1].last_mtime = file.mtime) => upd'[1].pc = "sleep"

FirstRoundDone ==
    /\ mode = "memcached" /\ clock = T0
    /\ \A p \in Procs : upd[p].pc \in {"sleep", "sleeping"}

McWrites(p) == upd[p].pc = "write" /\ upd'[p].pc # "write"

C14_FirstRound ==
    (FirstRoundDone /\ mc.faults = 0) =>
        /\ mc.present /\ mc.cas = 1 /\ Len(mc.data) = 1
        /\ \A p \in Procs : Len(tickets[p]) = 1 /\ Store(p) = mc.data

C14_Step ==
    mode = "memcached" =>
        /\ mc'.cas # mc.cas => \E p \in Procs : McWrites(p)
        /\ \A p \in Procs :
              (McWrites(p) /\ mc'.cas # mc.cas) =>
                  /\ mc'.cas = mc.cas + 1
                  /\ IF upd[p].resp.status = "NOTFOUND" THEN ~McVisible
                     ELSE McVisible /\ mc.cas = upd[p].resp.cas_unique

\* C14: peers that share one cache and start with empty stores, with no transport
\* error: when every peer has left its first retry loop the item has been written
\* exactly once (its version counts the writes that were stored) and holds one
\* key, and every peer's store holds that key and nothing else, with the name and
\* the secrets of the item.  A write is stored only when the item is still as the
\* writer's GET saw it (absent for an ADD, the same version for a SET), and a
\* stored write changes the version, so that of the writes that follow one
\* observed version only one is stored.
C14_ClusterConvergence == []C14_FirstRound /\ [][C14_Step]_vars

\* both peers found the item absent and minted a key, and each has read again
\* after its write
C14_Witness ==
    /\ FirstRoundDone /\ mc.faults = 0
    /\ \A p \in Procs : upd[p].ticks = 2
    /\ Store(1) = Store(2) /\ Len(tickets[1]) = 1

McGets(p) == upd[p].pc = "get" /\ upd'[p].pc # "get"
McInstalls(p) == McGets(p) /\ upd'[p].pc = "swap_wrlock"
McMints(p) == McGets(p) /\ upd'[p].pc = "write"

\* the sorted sequence of the pass that p has just made, without the key the
\* pass minted
Fetched(p) ==
    LET v == IF upd'[p].pc = "write" THEN Tail(upd'[p].tickets) ELSE upd'[p].tickets
    IN  [i \in 1..Len(v) |-> heap'[p][v[i]]]

\* the key the pass minted
Minted(p) == heap'[p][upd'[p].tickets[1]]

\* the encrypt-side search on ticket values: the index of the first key, newest
\* first, that has begun, when that key has not expired; else 0
ValidKey(s, now) ==
    LET begun == {i \in 1..Len(s) : s[i].not_before <= now}
    IN  IF begun = {} THEN 0
        ELSE LET i == CHOOSE j \in begun : \A k \in begun : j <= k
             IN  IF now <= s[i].not_after THEN i ELSE 0

\* what a pass does when rotation is due
MintsAsDue(p) ==
    /\ McMints(p)
    /\ Minted(p).not_before = (IF ValidKey(Fetched(p), clock) # 0 THEN clock + 60 ELSE clock)
    /\ Minted(p).not_after = Minted(p).not_before + lifetime

C15_StepValidKey ==
    \A p \in Procs :
        McGets(p) =>
            LET s == Fetched(p)
                v == ValidKey(s, clock)
            IN  IF v # 0 /\ s[v].not_before + lifetime \div 4 >= clock
                THEN McInstalls(p)
                ELSE MintsAsDue(p)

C15_StepNewestKey ==
    \A p \in Procs :
        McGets(p) =>
            LET s == Fetched(p)
                v == ValidKey(s, clock)
            IN  /\ SameKeys(s, IF McVisible THEN mc.data ELSE <<>>)
                /\ InSortedOrder(s)
                /\ IF v # 0 /\ s[1].not_before + lifetime \div 4 >= clock
                   THEN McInstalls(p)
                   ELSE MintsAsDue(p)

StoreAfterOf(p) == [i \in 1..Len(tickets'[p]) |-> heap'[p][tickets'[p][i]]]

\* a pass that finds rotation due leaves the store of its process as it is
DuePassKeepsStore(p) ==
    (McMints(p) \/ McWrites(p)) => (tickets'[p] = tickets[p] /\ StoreAfterOf(p) = Store(p))

C16_StepAlways ==
    \A p \in Procs :
        /\ DuePassKeepsStore(p)
        /\ McWrites(p) => upd'[p].pc = "get"

\* C16 as the specification states it: a pass that finds rotation due does not
\* change the local store, and once it has attempted the write it always returns
\* retry, whether the ADD or SET succeeded or failed.
C16_AlwaysRetries == [][C16_StepAlways]_vars

C16_StepAnswered ==
    \A p \in Procs :
        /\ DuePassKeepsStore(p)
        /\ McWrites(p) =>
              /\ upd'[p].pc \in {"get", "sleep"}
              /\ upd'[p].pc = "get" <=> mc'.faults = mc.faults

\* C16: a pass that finds rotation due does not change the local store, and it
\* returns retry exactly when the write was sent and its response received,
\* whether the server stored the value or rejected it; when the send or the
\* receive fails the pass returns not-retry and the updater goes to its sleep.
C16_RetriesWhenAnswered == [][C16_StepAnswered]_vars

\* two peers found the item absent and both sent an ADD, of which one was
\* stored; both are about to read again
C16_Witness ==
    /\ mode = "memcached"
    /\ mc.cas = 1 /\ mc.faults = 0
    /\ \A p \in Procs :
          /\ upd[p].pc = "get" /\ upd[p].ticks = 1
          /\ upd[p].resp.status = "NOTFOUND"
          /\ tickets[p] = <<>>

\* the values of the sequence that the pass of p holds, before and after a step
Pending(p) == [i \in 1..Len(upd[p].tickets) |-> heap[p][upd[p].tickets[i]]]
PendingAfter(p) == [i \in 1..Len(upd'[p].tickets) |-> heap'[p][upd'[p].tickets[i]]]

McSwaps(p) == upd[p].pc = "swap_locked" /\ upd'[p].pc = "swap_free"

C17_Step ==
    mode = "memcached" =>
        \A p \in Procs :
            \* the pass goes on to the install with the sorted value of its GET
            /\ (upd'[p].pc = "swap_wrlock" /\ upd[p].pc # "swap_wrlock") => McInstalls(p)
            /\ McInstalls(p) =>
                  /\ SameKeys(PendingAfter(p), IF McVisible THEN mc.data ELSE <<>>)
                  /\ InSortedOrder(PendingAfter(p))
            \* which stays as it is until the swap
            /\ (upd[p].pc \in {"swap_wrlock", "swap_locked"} /\ ~McSwaps(p)) =>
                  PendingAfter(p) = Pending(p)
            \* the swap puts it in the store, and nothing else changes the store
            /\ McSwaps(p) => StoreAfterOf(p) = Pending(p)
            /\ ~McSwaps(p) => (tickets'[p] = tickets[p] /\ StoreAfterOf(p) = Store(p))
            \* the key a pass minted is released after the write
            /\ McWrites(p) =>
                  /\ upd[p].tickets[1] \notin StoreAddrs(p)
                  /\ heap'[p][upd[p].tickets[1]] = NoTicket

\* C17: in cluster mode the store of a node changes only in the swap of a pass
\* that decided to install, and the swap leaves in it the sorted sequence of the
\* value that the GET of that pass returned; the entry of a key the node minted is
\* never in the store, it is sent to the cache and released, so that the key
\* reaches the store only in the value of a later GET.
C17_StoreIsWhatWasRead == [][C17_Step]_vars

\* a node has replaced its store by the two keys of the item
C17_Witness ==
    /\ mode = "memcached" /\ McVisible
    /\ \E p \in Procs :
          /\ upd[p].pc = "swap_free"
          /\ Len(upd[p].tickets) = 1
          /\ Len(tickets[p]) = 2 /\ Store(p) = mc.data

(***************************************************************************)
(* Configuration and startup.                                              *)
(***************************************************************************)
\* the mode that the configurator was given, in lower case
AcceptedMode == ToLower(srv.node_mode.scalar)

\* C18: after ssl_session_resumption_on_config has accepted mode off or cache,
\* ssl_setup_session_resumption starts no maintainer thread and installs the ticket
\* callback on no context; a thread is started and the callback installed only
\* when the mode is ticket or all.
C18_ModeDecidesTickets ==
    (srv.pc = "running" /\ srv.node_mode.type = "scalar") =>
        /\ AcceptedMode \in {"off", "cache"} =>
              (srv.thread = "NULL" /\ srv.ticket_key_cb = {})
        /\ (srv.thread # "NULL" \/ srv.ticket_key_cb # {}) => AcceptedMode \in {"ticket", "all"}

\* C19: a configuration that leaves the cache strategy or the ticket strategy at
\* memcached with no host set has returned -1, and the setup never creates the
\* client context with a null host (nor ends in the assertion on the host).
C19_MemcachedNeedsHost ==
    /\ (/\ srv.pc \in {"configured", "failed", "running"}
        /\ srv.node_mode # Absent
        /\ \/ conf.cache_setup = "setup_cache_memcached"
           \/ conf.update_thread = "ticket_memcached_updater"
        /\ conf.host = "NULL")
       => (srv.ret = -1 /\ srv.pc = "failed")
    /\ srv.pc # "aborted"
    /\ srv.memc_ctx \in {"NULL", "cache1"}
    /\ srv.memc_ctx = "NULL" =>
          (srv.async_resumption = {} /\ srv.thread # "ticket_memcached_updater")

\* the configurator has rejected a ticket strategy of memcached for which no host
\* is set, all its other attributes being accepted
C19_Witness ==
    /\ srv.pc = "failed" /\ srv.ret = -1
    /\ conf.update_thread = "ticket_memcached_updater"
    /\ conf.cache_setup = "NULL"
    /\ conf.ticket_lifetime = 200
    /\ conf.host = "NULL" /\ conf.port = 0

(***************************************************************************)
(* The lock under a stream of handshakes.                                  *)
(***************************************************************************)
\* the maintainer is in pthread_rwlock_wrlock
WriterWaits == upd[1].pc \in {"insert_wrlock", "expire_wrlock", "swap_wrlock"}

\* C20: a maintainer that requests the exclusive lock eventually holds it, however
\* the handshake threads keep taking the shared lock.
C20_WriterNotStarved == WriterWaits ~> rwlock[1].writer


(***************************************************************************)
(* serialize_tickets, parse_tickets and qsort on their own: one run takes  *)
(* a sequence of tickets through serialize, parse and sort; another takes  *)
(* a document through parse and serialize.                                 *)
(***************************************************************************)
\* the tickets of the runs: two names, keys whose hexadecimal digits are letters
\* and figures, the window of an ephemeral ticket and windows of minted tickets
CodecTickets ==
    {new_ticket("AES-256-CBC", "SHA256", w[1], w[2],
                [name |-> n, cipher_key |-> Bytes(k[1], KeyLen), hmac_key |-> Bytes(k[2], BlockSize)]) :
        n \in {Name(0, 1), Name(1, 0)},
        k \in {<<10, 171>>, <<171, 9>>},
        w \in {<<0, UINT64_MAX>>, <<T0, T0 + 200>>, <<T0 + McOffset, T0 + McOffset>>}}

CodecSequences == UNION {[1..n -> CodecTickets] : n \in 0..MaxLen}

\* two tickets of a document
CodecNewer == new_ticket("AES-256-CBC", "SHA256", T0 + McOffset, T0 + 200,
                         [name |-> Name(1, 0), cipher_key |-> Bytes(171, KeyLen),
                          hmac_key |-> Bytes(10, BlockSize)])

CodecOlder == new_ticket("AES-256-CBC", "SHA256", T0, T0 + 200,
                         [name |-> Name(0, 1), cipher_key |-> Bytes(9, KeyLen),
                          hmac_key |-> Bytes(205, BlockSize)])

\* the document doc with the attribute n of its first element set to the scalar v
WithScalar(doc, n, v) ==
    [doc EXCEPT !.elements[1].attrs =
        [a \in DOMAIN @ \cup {n} |-> IF a = n THEN Scalar(v) ELSE @[a]]]

\* the documents of the runs: what serialize_tickets writes for a sorted and for
\* an unsorted sequence and for the empty one, and documents written by hand:
\* capital hexadecimal digits, a leading zero, characters after the digits, an
\* attribute more, a window that parse_ticket_entry rejects, a root that is not a
\* sequence
CodecDocuments ==
    LET sorted == serialize_tickets(<<CodecNewer, CodecOlder>>)
    IN  { sorted,
          serialize_tickets(<<CodecOlder, CodecNewer>>),
          serialize_tickets(<<CodecOlder>>),
          serialize_tickets(<<>>),
          WithScalar(sorted, "key", <<"A", "B", "0", "a">>),
          WithScalar(sorted, "not_before", <<"0">> \o PRIu64(T0 + McOffset)),
          WithScalar(sorted, "not_after", PRIu64(T0 + 200) \o <<"x">>),
          WithScalar(sorted, "comment", <<"x">>),
          WithScalar(sorted, "not_after", PRIu64(T0)),
          [type |-> "mapping", elements |-> <<>>] }

InitCodec ==
    /\ mode = "internal" /\ lifetime = DefaultLifetime
    /\ mc = NoItem
    /\ file = [exists |-> FALSE, mtime |-> 0, doc |-> 1]
    /\ clock = T0
    /\ heap = [p \in Procs |-> [a \in Addrs |-> NoTicket]]
    /\ tickets = [p \in Procs |-> <<>>]
    /\ rwlock = [p \in Procs |-> [readers |-> 0, writer |-> FALSE]]
    /\ cb = [c \in Callbacks |-> IdleCallback]
    /\ upd = [p \in Procs |-> InitUpdater]
    /\ conf = StaticConf
    /\ srv = NotStarted
    /\ workers = 1
    /\ \E S \in CodecSequences, Y \in CodecDocuments :
          codec = [NoCodec EXCEPT !.pc = "tickets", !.tickets = S, !.ypc = "given", !.given = Y]

CodecUnchanged ==
    UNCHANGED <<mode, lifetime, clock, heap, tickets, rwlock, cb, upd, file, mc, conf, srv, workers>>

\* serialize_tickets, lines 424-443
CodecSerialize ==
    /\ codec.pc = "tickets"
    /\ codec' = [codec EXCEPT !.pc = "document", !.doc = serialize_tickets(codec.tickets)]
    /\ CodecUnchanged

\* parse_tickets, lines 387-422, of what serialize_tickets wrote
CodecParse ==
    /\ codec.pc = "document"
    /\ codec' = [codec EXCEPT !.pc = "parsed", !.parsed = parse_tickets(codec.doc)]
    /\ CodecUnchanged

\* the ticket values ts as qsort with ticket_sort_compare can leave them
SortValues(ts) ==
    LET h == [a \in 1..Len(ts) |-> ts[a]]
    IN  {[i \in 1..Len(ts) |-> h[v[i]]] : v \in qsort(h, [i \in 1..Len(ts) |-> i])}

\* qsort of what was parsed, as the callers of parse_tickets do (lines 563, 472)
CodecSort ==
    /\ codec.pc = "parsed"
    /\ codec.parsed.ok
    /\ \E v \in SortValues(codec.parsed.tickets) :
          codec' = [codec EXCEPT !.pc = "sorted", !.sorted = v]
    /\ CodecUnchanged

\* parse_tickets of a given document
CodecParseGiven ==
    /\ codec.ypc = "given"
    /\ codec' = [codec EXCEPT !.ypc = "parsed", !.reparsed = parse_tickets(codec.given)]
    /\ CodecUnchanged

\* serialize_tickets of what was parsed from the given document
CodecSerializeParsed ==
    /\ codec.ypc = "parsed"
    /\ codec.reparsed.ok
    /\ codec' = [codec EXCEPT !.ypc = "serialized",
                              !.out = serialize_tickets(codec.reparsed.tickets)]
    /\ CodecUnchanged

NextCodec ==
    \/ CodecSerialize
    \/ CodecParse
    \/ CodecSort
    \/ CodecParseGiven
    \/ CodecSerializeParsed

SpecCodec == InitCodec /\ [][NextCodec]_vars

(***************************************************************************)
(* C21.  Destroyed keys are wiped, and released once.                      *)
(***************************************************************************)
\* the tickets thread p has to give to free_ticket or to the store: the store's
\* entries, the local vector of a load or a reconcile pass, the ticket minted for
\* an insertion, the entry popped for expiry, and the ephemeral ticket of an
\* encrypt call that has not used it yet
Owned(p) ==
    tickets[p] \o upd[p].tickets
       \o (IF upd[p].ticket # NULL THEN <<upd[p].ticket>> ELSE <<>>)
       \o (IF upd[p].expiring_ticket # NULL THEN <<upd[p].expiring_ticket>> ELSE <<>>)

Ephemeral(p) ==
    {cb[c].temp_ticket : c \in {d \in Callbacks : p = 1 /\ cb[d].pc = "found"
                                                    /\ cb[d].temp_ticket # NULL}}

\* C21: in every state, every cell that has been released holds no key material
\* (its cipher_key and mac_key, like its other bytes, are the zeros that
\* free_ticket wrote before the release), and no ticket can be released twice:
\* every ticket that is still to be released is allocated and is held in exactly
\* one place.
C21_WipedAndReleasedOnce ==
    \A p \in Procs :
        /\ \A a \in Addrs :
              ~heap[p][a].alloc =>
                  /\ heap[p][a].cipher_key = NoTicket.cipher_key
                  /\ heap[p][a].hmac_key = NoTicket.hmac_key
                  /\ heap[p][a] = NoTicket
        /\ \A i \in 1..Len(Owned(p)) :
              /\ heap[p][Owned(p)[i]].alloc
              /\ Owned(p)[i] \notin Ephemeral(p)
              /\ \A j \in 1..Len(Owned(p)) : Owned(p)[i] = Owned(p)[j] => i = j
        /\ \A a \in Ephemeral(p) : heap[p][a].alloc
        /\ \A a \in Addrs :
              heap[p][a].alloc =>
                  \/ a \in Ephemeral(p)
                  \/ \E i \in 1..Len(Owned(p)) : Owned(p)[i] = a

\* an encrypt call has destroyed its ephemeral key, and the local rotator, which
\* with a lifetime of 2 mints a key at every tick, has popped and destroyed a key
\* (it holds fewer keys than it has minted)
C21_Witness ==
    /\ \E c \in Callbacks :
          /\ cb[c].pc = "exit" /\ cb[c].enc /\ cb[c].temp_ticket # NULL
          /\ ~heap[1][cb[c].temp_ticket].alloc
          /\ cb[c].ctx[2] # <<>>
    /\ mode = "internal" /\ lifetime = 2
    /\ upd[1].ticks >= 2 /\ upd[1].pc = "sleeping"
    /\ Len(tickets[1]) < upd[1].ticks


(***************************************************************************)
(* C22.  Round trip of the serialization.                                  *)
(***************************************************************************)
\* a scalar made of n lowercase hexadecimal digits
LowerHex(chars, n) ==
    /\ Len(chars) = n
    /\ \A i \in 1..n : \E d \in 1..16 : HexDigits[d] = chars[i]

\* a scalar that is the decimal notation of a 64-bit number
Decimal(chars) ==
    /\ chars # <<>>
    /\ \A i \in 1..Len(chars) : DecValue(chars[i]) >= 0
    /\ Len(chars) > 1 => chars[1] # "0"
    /\ Len(chars) <= Len(PRIu64(UINT64_MAX))
    /\ Len(chars) = Len(PRIu64(UINT64_MAX)) =>
          \A i \in 1..Len(chars) :
             (\A j \in 1..(i - 1) : chars[j] = PRIu64(UINT64_MAX)[j])
                => DecValue(chars[i]) <= DecValue(PRIu64(UINT64_MAX)[i])

\* an element in the form in which serialize_ticket_entry writes one
CanonicalEntry(e) ==
    /\ e.type = "mapping"
    /\ DOMAIN e.attrs = {"name", "cipher", "hash", "key", "not_before", "not_after"}
    /\ \A n \in DOMAIN e.attrs : e.attrs[n].type = "scalar"
    /\ LowerHex(e.attrs["name"].scalar, 2 * NameLen)
    /\ e.attrs["cipher"].scalar \in KnownCiphers
    /\ e.attrs["hash"].scalar \in KnownDigests
    /\ LowerHex(e.attrs["key"].scalar, 2 * (KeyLen + BlockSize))
    /\ Decimal(e.attrs["not_before"].scalar)
    /\ Decimal(e.attrs["not_after"].scalar)
    /\ SCNu64(e.attrs["not_before"].scalar).value <= SCNu64(e.attrs["not_after"].scalar).value

\* a document in canonical sorted form: a sequence of canonical elements, newest
\* first, equal not_before by name
Canonical(doc) ==
    /\ doc.type = "sequence"
    /\ \A i \in 1..Len(doc.elements) : CanonicalEntry(doc.elements[i])
    /\ \A i \in 1..(Len(doc.elements) - 1) :
          LET x == doc.elements[i].attrs
              y == doc.elements[i + 1].attrs
              xb == SCNu64(x["not_before"].scalar).value
              yb == SCNu64(y["not_before"].scalar).value
          IN  \/ xb > yb
              \/ xb = yb /\ memcmp(h2o_hex_decode(x["name"].scalar).bytes,
                                   h2o_hex_decode(y["name"].scalar).bytes, NameLen) <= 0

\* C22: for every sequence S of tickets, parse_tickets accepts serialize_tickets(S)
\* and gives back S, every field of every ticket included, so that sorting what
\* was parsed gives a sorted arrangement of S; and for every document Y in
\* canonical sorted form, serialize_tickets of parse_tickets(Y) is Y.
C22_RoundTrip ==
    /\ codec.pc \in {"parsed", "sorted"} =>
          /\ codec.parsed.ok
          /\ codec.parsed.tickets = codec.tickets
          /\ \A i \in 1..Len(codec.tickets) :
                \A f \in {"name", "cipher", "md", "cipher_key", "hmac_key",
                          "not_before", "not_after"} :
                   codec.parsed.tickets[i][f] = codec.tickets[i][f]
    /\ codec.pc = "sorted" => codec.sorted \in SortValues(codec.tickets)
    /\ (codec.ypc \in {"parsed", "serialized"} /\ Canonical(codec.given)) => codec.reparsed.ok
    /\ (codec.ypc = "serialized" /\ Canonical(codec.given)) => codec.out = codec.given

\* two tickets with different keys and windows, the older one first, have been
\* serialized, parsed and sorted, the sort has changed their order, and a
\* canonical document of two elements has been parsed and serialized
C22_Witness ==
    /\ codec.pc = "sorted"
    /\ Len(codec.tickets) = 2
    /\ codec.tickets[1].not_before < codec.tickets[2].not_before
    /\ codec.tickets[1].cipher_key # codec.tickets[2].cipher_key
    /\ codec.tickets[1].cipher_key # codec.tickets[1].hmac_key
    /\ codec.sorted = <<codec.tickets[2], codec.tickets[1]>>
    /\ codec.ypc = "serialized"
    /\ Canonical(codec.given)
    /\ Len(codec.given.elements) = 2


(***************************************************************************)
(* C23.  What the maintainers do under the lock.                           *)
(***************************************************************************)
\* the points of a maintainer between pthread_rwlock_wrlock and the unlock
LockedPoints == {"insert_locked", "expire_locked", "swap_locked"}

\* a maintainer holds the exclusive lock only at those points, that is, not in a
\* sleep, a stat, a read, a GET, an ADD or SET, a parse, new_ticket or
\* free_ticket; and the shared lock is held by calls of the callback only
C23_State ==
    \A p \in Procs :
        /\ rwlock[p].writer => upd[p].pc \in LockedPoints
        /\ rwlock[p].readers =
              IF p = 1 THEN Cardinality({c \in Callbacks : cb[c].pc # "idle"}) ELSE 0

\* the step a maintainer takes with the exclusive lock is one mutation of the
\* store followed by the unlock: one key put in front, or the last key taken off
\* (or nothing, when the last is not expired), or the whole store swapped; it
\* touches neither the heap nor the file nor the shared value
C23_Step ==
    \A p \in Procs :
        (rwlock[p].writer /\ upd'[p] # upd[p]) =>
            /\ ~rwlock'[p].writer
            /\ heap' = heap /\ file' = file /\ mc' = mc /\ clock' = clock
            /\ upd[p].pc = "insert_locked" => tickets'[p] = <<upd[p].ticket>> \o tickets[p]
            /\ upd[p].pc = "expire_locked" =>
                  \/ tickets'[p] = tickets[p]
                  \/ tickets'[p] = SubSeq(tickets[p], 1, Len(tickets[p]) - 1)
            /\ upd[p].pc = "swap_locked" => tickets'[p] = upd[p].tickets
            /\ mode = "internal" => upd[p].pc # "swap_locked"

\* C23: every maintainer holds the exclusive lock for one mutation only (the
\* local rotator for the insertion of one key or the removal of at most one key,
\* with the lock released between two pops), and holds neither lock while it
\* sleeps, does file or socket I/O, parses, mints a key or wipes and frees one.
C23_OneMutationPerLock == []C23_State /\ [][C23_Step]_vars

\* the local rotator, late for its third tick, has popped the first key, has
\* released the lock and has freed the key, and is about to take the lock again
\* to pop the second key, which has expired as well
C23_Witness ==
    /\ mode = "internal"
    /\ upd[1].pc = "expire_wrlock" /\ upd[1].ticks = 3
    /\ ~rwlock[1].writer
    /\ Len(tickets[1]) = 2
    /\ Store(1)[2].not_after < upd[1].now
    /\ Cardinality({a \in 1..MaxAddr : heap[1][a].alloc}) = 2


(***************************************************************************)
(* C24.  Writes to the shared value.                                       *)
(***************************************************************************)
\* the server stores the write of rotator p
McStored(p) == McWrites(p) /\ mc'.cas # mc.cas

\* the keys of the value v
KeysOf(v) == {v[i] : i \in 1..Len(v)}

\* a write is stored only if the shared value is as the GET of the pass saw it:
\* an ADD (the GET returned not-found) when there is no item, a SET when the item
\* is there with the CAS value of the GET
C24_StoredIfUnchanged ==
    \A p \in Procs :
        McStored(p) =>
            /\ upd[p].resp.status = "NOTFOUND" => ~McVisible
            /\ upd[p].resp.status = "OK" => McVisible /\ mc.cas = upd[p].resp.cas_unique

\* the key that the rotator mc.by minted and wrote (the first of the value it
\* wrote) is in the value after a stored write of another rotator
C24_StepAlways ==
    /\ C24_StoredIfUnchanged
    /\ \A p \in Procs :
          (McStored(p) /\ mc.present /\ mc.by # p) => mc.data[1] \in KeysOf(mc'.data)

C24_NoLostUpdate == [][C24_StepAlways]_vars

\* every key of an item that has not expired is in the value after a stored write
C24_StepUnexpired ==
    /\ C24_StoredIfUnchanged
    /\ \A p \in Procs :
          (McStored(p) /\ McVisible) => KeysOf(mc.data) \subseteq KeysOf(mc'.data)

\* C24: a cluster rotator writes with ADD when its GET returned not-found and
\* with SET and the CAS value of its GET otherwise, a write is stored only if the
\* shared value is unchanged since that GET, and every key of the shared value
\* is still in it after a later stored write, as long as the item has not expired
\* in between.
C24_NoLostUpdateUntilExpiry == [][C24_StepUnexpired]_vars

\* a value written by one rotator has been extended by a SET of the other
C24_Witness ==
    /\ mode = "memcached"
    /\ McVisible /\ Len(mc.data) >= 2
    /\ mc.by = 2
    /\ \E p \in Procs : upd[p].pc = "swap_free" /\ Len(tickets[p]) >= 2


(***************************************************************************)
(* C25.  The reload decision of the file rotator.                          *)
(***************************************************************************)
\* a tick of the file rotator: last_mtime becomes 0 on a failed stat and st.mtime
\* on a load attempt and is left alone otherwise; a load is attempted exactly when
\* the stat succeeds with an mtime other than last_mtime, hence whenever the file
\* is back after a failed stat; a failed stat that follows a failed stat writes
\* no message
C25_Step ==
    (mode = "file" /\ FileStats) =>
        /\ ~file.exists =>
              /\ upd'[1].last_mtime = 0
              /\ upd'[1].pc # "load"
              /\ upd[1].stat_failed => ~upd'[1].logged
        /\ file.exists =>
              /\ upd'[1].pc = "load" <=> file.mtime # upd[1].last_mtime
              /\ upd'[1].pc = "load" => upd'[1].last_mtime = file.mtime
              /\ upd'[1].pc # "load" => upd'[1].last_mtime = upd[1].last_mtime
              /\ ~upd'[1].logged
              /\ upd[1].stat_failed => upd'[1].pc = "load"

\* C25: last_mtime starts at 1, becomes 0 on every failed stat and st.mtime on
\* every load attempt; a load is attempted on exactly the ticks where stat
\* succeeds and st.mtime differs from last_mtime, so that a file that reappears
\* after a failed stat is reloaded even with the modification time seen before;
\* and within a run of consecutive failed stats only the first one is logged.
C25_ReloadFollowsMtime ==
    /\ []((mode = "file" /\ upd[1].ticks = 0) => upd[1].last_mtime = 1)
    /\ [][C25_Step]_vars


(***************************************************************************)
(* C26.  The key of a new ticket and the renewal.                          *)
(***************************************************************************)
\* what a decrypt call returns for the name key_name on the store as it is now
\* (lines 206-221)
DecryptResult(key_name) ==
    LET i == find_ticket_by_name(heap[1], tickets[1], key_name, 1)
    IN  IF i = 0 THEN 0 ELSE renew_unless_newest(i - 1)

\* C26: whenever an encrypt call has chosen a key of the store (it holds the
\* shared lock, so the store is as the call sees it), that key is the one at
\* index 0, and a decrypt call on the same store with the key's name returns 1
\* (ok), not 2 (renew); in every mode.
C26_IssuedKeyIsNotRenewed ==
    \A c \in Callbacks :
        (cb[c].pc = "found" /\ cb[c].enc /\ cb[c].temp_ticket = NULL) =>
            /\ cb[c].ticket = tickets[1][1]
            /\ DecryptResult(heap[1][cb[c].ticket].name) = 1


(***************************************************************************)
(* C27.  Availability of a valid key in local mode.  The lifetimes are     *)
(* those on both sides of the longest sleep, a short one, and the default. *)
(***************************************************************************)
AvailLifetimes == {2, SleepBase, SleepBase + 1, 200, DefaultLifetime}

InitAvail == InitStoreOf(AvailLifetimes) /\ mode = "internal" /\ workers = 1

SpecAvail == InitAvail /\ [][NextLocalMode]_vars

\* the first tick of the local rotator has made its insertion
AfterFirstTick ==
    \/ upd[1].ticks > 1
    \/ upd[1].ticks = 1 /\ upd[1].pc \in {"sleep", "sleeping"}

\* the rotator is not late: it has finished a tick, or the time at which its last
\* sleep ends (114 to 120 seconds after the tick before) has not passed
OnTime == upd[1].pc = "sleep" \/ clock <= upd[1].wake

\* the store has a key that an encrypt call at the current time uses, and no
\* encrypt call in progress has made an ephemeral key
KeyAvailable ==
    /\ find_ticket_for_encryption(heap[1], tickets[1], clock) # 0
    /\ \A c \in Callbacks :
          (cb[c].pc = "found" /\ cb[c].enc) => cb[c].temp_ticket = NULL

\* in local mode, for every positive lifetime, from the end of the first tick on
\* and as long as the ticks are 114 to 120 seconds apart, the store has a key
\* valid at the current time and no encrypt call falls back to an ephemeral key
C27_AlwaysAvailable ==
    (mode = "internal" /\ AfterFirstTick /\ OnTime) => KeyAvailable

\* C27: in local mode, for every configured lifetime greater than the longest
\* sleep of the rotator (120 seconds), from the end of the first tick on and as
\* long as the ticks are 114 to 120 seconds apart, the store has a key valid at
\* the current time and no encrypt call falls back to an ephemeral key.
C27_AvailableIfLifetimeOverSleep ==
    (mode = "internal" /\ lifetime > SleepBase /\ AfterFirstTick /\ OnTime) => KeyAvailable

\* with the lifetime of 121 seconds the rotator has slept its 120 seconds, the
\* only key of the store is in the last second of its validity, and an encrypt
\* call has chosen it
C27_Witness ==
    /\ mode = "internal" /\ lifetime = SleepBase + 1
    /\ upd[1].pc = "sleeping" /\ clock = upd[1].wake
    /\ Len(tickets[1]) = 1 /\ Store(1)[1].not_after = clock
    /\ \E c \in Callbacks : cb[c].pc = "found" /\ cb[c].enc /\ cb[c].ticket = tickets[1][1]

(***************************************************************************)
(* C28: the retry loop of the cluster rotator, started on a shared value   *)
(* that some client of the memcached server has written.                   *)
(***************************************************************************)
\* the sequences found under the key at the start:
\*  1. a key valid at T0 and younger than a quarter of every lifetime
\*  2. a key valid at T0 and older than a quarter of the lifetimes 2 and 200
\*  3. a key that expired before T0
\*  4. a key whose not_before and not_after are the largest uint64_t
RetryValues ==
    <<  <<Tk(Name(7, 7), 1, T0 - 1, T0 + Horizon)>>,
        <<Tk(Name(7, 7), 1, T0 - 100, T0 + Horizon)>>,
        <<Tk(Name(7, 7), 1, T0 - 100, T0 - 1)>>,
        <<Tk(Name(7, 8), 3, UINT64_MAX, UINT64_MAX)>>  >>

\* the item is absent, or holds one of these sequences and does not expire
\* before the horizon; the connections to the server have no transport error
RetryItems ==
    {[NoItem EXCEPT !.faults = MaxFaults]}
        \cup {[present |-> TRUE, data |-> RetryValues[i], cas |-> 1,
               expire |-> T0 + Horizon + 1, faults |-> MaxFaults, by |-> 0] :
                 i \in 1..Len(RetryValues)}

\* a lifetime whose quarter is zero and one whose quarter is not
RetryLifetimes == {2, 200}

InitRetry == InitStoreWith(RetryLifetimes, RetryItems) /\ mode = "memcached" /\ workers = 1

SpecRetry == InitRetry /\ [][NextMemcachedMode]_vars

\* C28: the run of consecutive passes of a connected rotator that return retry
\* is finite and ends with a pass that installs: a pass that returns retry has
\* had its write answered, so a rotator's write or a peer's has put a new key in
\* the shared value, and with a finite number of peers the run is no longer than
\* the number of rotators; the pass that ends it installs what it fetched.
C28_RetryLoopEnds ==
    /\ [](\A p \in Procs : upd[p].retries <= NumProcs)
    /\ [][\A p \in Procs :
             (McGets(p) /\ upd[p].retries > 0 /\ upd'[p].pc # "write")
                 => upd'[p].pc = "swap_wrlock"]_vars

=============================================================================
